---- MODULE Spec2Model ----
(***************************************************************************)
(* State-machine model of the memory-pool suite (csrc/memory_pool):        *)
(*   - FixedBlockPool      (intermediate_fixed_block_pool.h)               *)
(*   - StackAllocator      (intermediate_stack_allocator.h)                *)
(*   - ThreadSafeFixedPool (advance_thread_safe_pool.h)                    *)
(*   - PoolAllocator       (advance_pool_allocator.h)                      *)
(*   - MemoryStats, alignUp (memory_pool_common.h)                         *)
(* Addresses and size_t values are naturals modulo WordMod.  A pointer is  *)
(* an address; NULL is address 0.                                          *)
(***************************************************************************)
EXTENDS Integers, Sequences, FiniteSets, TLC

VARIABLES
    (* FixedBlockPool *)
    memory_start_,   \* char * memory_start_
    free_list_,      \* Block * free_list_
    block_size_,     \* size_t block_size_
    block_count_,    \* size_t block_count_
    stats_,          \* MemoryStats stats_
    mem,             \* the first word of every block of the arena (Block::next / user data)
    outstanding,     \* caller: pointers returned by allocate() and not yet freed
    calls,           \* caller: the last calls made, each [op, arg, ret]
    fresh,           \* caller: returns of the allocate() calls since construction,
                     \*         while nothing but allocate() has been called
    (* StackAllocator *)
    buffer_,         \* char * buffer_
    capacity_,       \* size_t capacity_
    offset_,         \* size_t offset_
    stack_stats_,    \* MemoryStats stats_
    markers_,        \* std::vector<Marker> markers_, each Marker its offset
    held,            \* caller: the marker it took with getMarker(), while nothing
                     \*         but allocate() has been called since
    stack_call,      \* caller: the last call made and what it returned
    scopes,          \* caller: its live StackAllocatorScope objects, innermost last
    regions,         \* caller: the regions allocate() handed out since the last rollback
    (* ThreadSafeFixedPool *)
    ts_memory_start_, \* char * memory_start_
    ts_free_list_,    \* std::atomic<Block *> free_list_
    ts_block_size_,   \* size_t block_size_
    ts_block_count_,  \* size_t block_count_
    ts_stats_,        \* PoolStats stats_ (guarded by mutex_)
    ts_mem,           \* Block::next of every block of the arena
    threads,          \* the number of threads calling the pool
    pc,               \* per thread: where it is in allocate() / deallocate()
    old_head,         \* per thread: local old_head
    new_head,         \* per thread: local new_head
    ts_block,         \* per thread: local block of deallocate()
    holds,            \* per thread: the block its caller holds, or NULL
    started,          \* the number of allocate() calls the threads have begun
    strays,           \* the number of deallocate() calls given anything but the block held
    (* PoolAllocator *)
    allocators,       \* the PoolAllocator objects over the pool, each [owns_pool_, size, alive]
                      \*   with size the sizeof(T) of its value_type
    heap,             \* the pointers ::operator new returned and ::operator delete has
                      \*   not been given
    pa_live,          \* caller: what allocate(n) returned and is not given back, each [ptr, n]
    pa_call,          \* caller: the last PoolAllocator call and how it went
    (* MemoryStats *)
    ms_stats,         \* a MemoryStats object used on its own
    ms_high,          \* caller: the largest current_usage seen since construction or reset()
    ms_calls,         \* caller: the recordAllocation / recordDeallocation calls made since
    (* alignUp, align_up *)
    align_call,       \* caller: the arguments of a call of alignUp and what it returned
    (* HybridThreadPool *)
    hy_free,          \* per instance: the free list of global_pool_, head first
    hy_stats,         \* per instance: the stats_ of global_pool_
    hy_cache,         \* per thread: cache_.blocks[0 .. cache_.count - 1]
    hy_held,          \* caller: per thread, what allocate() returned and is not given
                      \*   back, each [ptr, pool]
    hy_call,          \* caller: the last call, and how many allocate() calls were made
    (* FixedSizePool *)
    fs_memory_pool_,  \* void * memory_pool_
    fs_free_list_,    \* FreeNode * free_list_
    fs_block_size_,   \* size_t block_size_
    fs_block_count_,  \* size_t block_count_
    fs_used_count_,   \* size_t used_count_
    fs_stats_,        \* MemoryStats stats_
    fs_mem,           \* the first word of each block of the arena: FreeNode::next
    fs_outstanding,   \* caller: the blocks Allocate() returned and that are not given back
    fs_call           \* caller: how the constructor ended, and the last call

fbVars == <<memory_start_, free_list_, block_size_, block_count_, stats_, mem,
            outstanding, calls, fresh>>

saVars == <<buffer_, capacity_, offset_, stack_stats_, markers_, held, stack_call,
            scopes, regions>>

tsVars == <<ts_memory_start_, ts_free_list_, ts_block_size_, ts_block_count_,
            ts_stats_, ts_mem, threads, pc, old_head, new_head, ts_block, holds, started, strays>>

paVars == <<allocators, heap, pa_live, pa_call>>

msVars == <<ms_stats, ms_high, ms_calls>>

utilVars == <<align_call>>

hyVars == <<hy_free, hy_stats, hy_cache, hy_held, hy_call>>

fsVars == <<fs_memory_pool_, fs_free_list_, fs_block_size_, fs_block_count_, fs_used_count_,
            fs_stats_, fs_mem, fs_outstanding, fs_call>>

vars == <<fbVars, saVars, tsVars, paVars, msVars, utilVars, hyVars, fsVars>>

----------------------------------------------------------------------------
(* Bounds of the model *)

\* largest block_count given to a pool constructor
MaxBlocks == 2
\* a pool takes no further successful allocate() once allocation_count reaches this
MaxOps == 4
\* largest capacity given to a StackAllocator
MaxCapacity == 12
\* a StackAllocator's allocation_count and deallocation_count stay within this
MaxStackOps == 2
\* largest depth of the marker stack
MaxMarkers == 1
\* largest number of threads calling a ThreadSafeFixedPool
MaxThreads == 3
\* allocate() calls the threads of a ThreadSafeFixedPool begin, all together
MaxAllocCalls == 4
\* deallocate() calls given anything but the block the caller holds
MaxStrays == 1
\* largest number of PoolAllocator objects over one pool
MaxAllocators == 2
\* largest number of live allocations of the global allocator
MaxHeap == 2
\* recordAllocation / recordDeallocation calls made on a MemoryStats between resets
MaxRecords == 4

----------------------------------------------------------------------------
(* Machine words *)

\* size_t / uintptr_t arithmetic is modulo 2^w; w is scaled down to 16 bits
WordBits == 16
WordMod == 2 ^ WordBits
NULL == 0
\* sizeof(Block *)
PointerSize == 8
\* alignof(std::max_align_t), the alignment of union Block
MaxAlign == 16

Wrap(x) == x % WordMod

Max(a, b) == IF a >= b THEN a ELSE b

\* a & b on n-bit words
RECURSIVE BitAnd(_, _, _)
BitAnd(a, b, n) ==
    IF n = 0 THEN 0
    ELSE (IF a % 2 = 1 /\ b % 2 = 1 THEN 1 ELSE 0)
         + 2 * BitAnd(a \div 2, b \div 2, n - 1)

\* ~a on a word
BitNot(a) == WordMod - 1 - a

\* alignUp adding the whole alignment: (size + alignment) & ~(alignment - 1)
alignUp_next(size, alignment) ==
    BitAnd(Wrap(size + alignment), BitNot(Wrap(alignment - 1)), WordBits)

\* (size + alignment - 1) & ~(alignment - 1)
alignUp(size, alignment) ==
    BitAnd(Wrap(size + alignment - 1), BitNot(Wrap(alignment - 1)), WordBits)

\* the old name of alignUp
align_up(size, alignment) == alignUp(size, alignment)

\* x && !(x & (x - 1))
isPowerOfTwo(x) == x # 0 /\ BitAnd(x, Wrap(x - 1), WordBits) = 0

\* no call of alignUp made
NoAlignCall == align_call = [fn |-> "none", size |-> 0, alignment |-> 0, ret |-> 0]

----------------------------------------------------------------------------
(* MemoryStats *)

NewStats ==
    [total_allocated |-> 0, total_freed |-> 0, current_usage |-> 0,
     peak_usage |-> 0, allocation_count |-> 0, deallocation_count |-> 0]

recordAllocation(st, size) ==
    LET current == Wrap(st.current_usage + size)
    IN  [st EXCEPT !.total_allocated = Wrap(st.total_allocated + size),
                   !.current_usage = current,
                   !.allocation_count = Wrap(st.allocation_count + 1),
                   !.peak_usage = IF current > st.peak_usage THEN current
                                  ELSE st.peak_usage]

\* recordDeallocation without deallocation_count++
recordDeallocation_nocount(st, size) ==
    [st EXCEPT !.total_freed = Wrap(st.total_freed + size),
               !.current_usage = Wrap(st.current_usage - size)]

\* MemoryStats::recordDeallocation
recordDeallocation(st, size) ==
    [st EXCEPT !.total_freed = Wrap(st.total_freed + size),
               !.current_usage = Wrap(st.current_usage - size),
               !.deallocation_count = Wrap(st.deallocation_count + 1)]

\* MemoryStats stats; and nothing recorded yet
MsConstruct ==
    /\ ms_stats = NewStats
    /\ ms_high = 0
    /\ ms_calls = [allocs |-> 0, deallocs |-> 0]

\* the sizes recorded: a byte, two bytes, the most a size_t holds
RecordSizes == {1, 2, WordMod - 1}

\* stats.record_allocation(size)
MsRecordAllocation(size) ==
    /\ ms_calls.allocs + ms_calls.deallocs < MaxRecords
    /\ ms_stats' = recordAllocation(ms_stats, size)
    /\ ms_high' = Max(ms_high, ms_stats'.current_usage)
    /\ ms_calls' = [ms_calls EXCEPT !.allocs = @ + 1]
    /\ UNCHANGED <<fbVars, saVars, tsVars, paVars, utilVars, hyVars, fsVars>>

\* stats.record_deallocation(size)
MsRecordDeallocation(size) ==
    /\ ms_calls.allocs + ms_calls.deallocs < MaxRecords
    /\ ms_stats' = recordDeallocation(ms_stats, size)
    /\ ms_high' = Max(ms_high, ms_stats'.current_usage)
    /\ ms_calls' = [ms_calls EXCEPT !.deallocs = @ + 1]
    /\ UNCHANGED <<fbVars, saVars, tsVars, paVars, utilVars, hyVars, fsVars>>

\* MemoryStats::reset
reset(st) == NewStats

\* stats.reset()
MsReset ==
    /\ ms_calls.allocs + ms_calls.deallocs > 0
    /\ ms_stats' = reset(ms_stats)
    /\ ms_high' = 0
    /\ ms_calls' = [allocs |-> 0, deallocs |-> 0]
    /\ UNCHANGED <<fbVars, saVars, tsVars, paVars, utilVars, hyVars, fsVars>>

----------------------------------------------------------------------------
(* FixedBlockPool *)

\* block sizes asked of the constructor
BlockSizeRequests == {4}

\* the address ::operator new returned for the arena
ArenaBase == 64

BlockAddr(start, size, i) == start + i * size

BlockAddrs == {BlockAddr(memory_start_, block_size_, i) : i \in 0 .. block_count_ - 1}

\* initFreeList with the loop ending one block early (i > 1)
RECURSIVE initFreeList_short(_, _, _, _, _)
initFreeList_short(start, size, i, head, m) ==
    IF i > 1
    THEN LET block == BlockAddr(start, size, i - 1)
         IN  initFreeList_short(start, size, i - 1, block, [m EXCEPT ![block] = head])
    ELSE [free_list |-> head, mem |-> m]

\* the loop of initFreeList: blocks i, i-1, .., 1 are still to be linked
RECURSIVE initFreeList(_, _, _, _, _)
initFreeList(start, size, i, head, m) ==
    IF i > 0
    THEN LET block == BlockAddr(start, size, i - 1)
         IN  initFreeList(start, size, i - 1, block, [m EXCEPT ![block] = head])
    ELSE [free_list |-> head, mem |-> m]

\* FixedBlockPool::FixedBlockPool(block_size, block_count)
Construct(block_size, block_count) ==
    LET bs    == alignUp(Max(block_size, PointerSize), MaxAlign)
        addrs == {BlockAddr(ArenaBase, bs, i) : i \in 0 .. block_count - 1}
        fl    == initFreeList(ArenaBase, bs, block_count, NULL,
                              [a \in addrs |-> NULL])
    IN  /\ memory_start_ = ArenaBase
        /\ block_count_ = block_count
        /\ block_size_ = bs
        /\ free_list_ = fl.free_list
        /\ mem = fl.mem
        /\ stats_ = NewStats
        /\ outstanding = {}
        /\ calls = <<>>
        /\ fresh = [only_allocs |-> TRUE, rets |-> <<>>]

\* owns with the end of the arena taken as inside (p <= end)
owns_inclusive(ptr) ==
    LET p     == ptr
        start == memory_start_
        end   == Wrap(start + block_size_ * block_count_)
    IN  p >= start /\ p <= end

\* owns that is true only of the blocks handed out
owns_outstanding(ptr) ==
    LET p     == ptr
        start == memory_start_
        end   == Wrap(start + block_size_ * block_count_)
    IN  p >= start /\ p < end /\ ptr \in outstanding

\* FixedBlockPool::owns
owns(ptr) ==
    LET p     == ptr
        start == memory_start_
        end   == Wrap(start + block_size_ * block_count_)
    IN  p >= start /\ p < end

\* the blocks reached from p by following next, as print_status counts them; the
\* walk gives up after n blocks and at an address that is no block of the arena
RECURSIVE Walk(_, _)
Walk(p, n) ==
    IF p = NULL \/ n = 0 THEN <<>>
    ELSE IF p \notin BlockAddrs THEN <<p>>
    ELSE <<p>> \o Walk(mem[p], n - 1)

FreeBlocks == Walk(free_list_, block_count_ + 1)

\* the caller's log of calls keeps the last four
Logged(c) ==
    LET s == Append(calls, c)
    IN  IF Len(s) > 4 THEN Tail(s) ELSE s

\* what a caller stores in a block: *ptr = 42
UserData == {42}

\* what a read through a pointer to no word of the model may yield
WildReads == {NULL} \cup UserData

\* block->next as allocate() reads it. The free list may lead out of the arena once
\* a block is both held and free: the read through such a pointer yields some word,
\* unless the program ends there
NextWords(block) == IF block \in DOMAIN mem THEN {mem[block]} ELSE WildReads

\* allocate with the statistics recorded before the free list is looked at
Allocate_countfail ==
    /\ IF free_list_ = NULL
       THEN /\ calls' = Logged([op |-> "allocate", arg |-> NULL, ret |-> NULL])
            /\ fresh' = IF fresh.only_allocs /\ Len(fresh.rets) <= block_count_
                        THEN [fresh EXCEPT !.rets = Append(@, NULL)]
                        ELSE [fresh EXCEPT !.only_allocs = FALSE]
            /\ stats_.allocation_count < MaxOps
            /\ stats_' = recordAllocation(stats_, block_size_)
            /\ UNCHANGED <<free_list_, mem, outstanding>>
       ELSE /\ stats_.allocation_count < MaxOps
            /\ LET block == free_list_
               IN  /\ free_list_' \in NextWords(block)
                   /\ stats_' = recordAllocation(stats_, block_size_)
                   /\ outstanding' = outstanding \cup {block}
                   /\ calls' = Logged([op |-> "allocate", arg |-> NULL, ret |-> block])
                   /\ fresh' = IF fresh.only_allocs
                               THEN [fresh EXCEPT !.rets = Append(@, block)]
                               ELSE fresh
            /\ UNCHANGED mem
    /\ UNCHANGED <<memory_start_, block_size_, block_count_>>
    /\ UNCHANGED <<saVars, tsVars, msVars, utilVars, hyVars, fsVars>>

\* FixedBlockPool::allocate
Allocate ==
    /\ IF free_list_ = NULL
       THEN /\ calls' = Logged([op |-> "allocate", arg |-> NULL, ret |-> NULL])
            /\ fresh' = IF fresh.only_allocs /\ Len(fresh.rets) <= block_count_
                        THEN [fresh EXCEPT !.rets = Append(@, NULL)]
                        ELSE [fresh EXCEPT !.only_allocs = FALSE]
            /\ UNCHANGED <<free_list_, mem, stats_, outstanding>>
       ELSE /\ stats_.allocation_count < MaxOps
            /\ LET block == free_list_
               IN  /\ free_list_' \in NextWords(block)
                   /\ stats_' = recordAllocation(stats_, block_size_)
                   /\ outstanding' = outstanding \cup {block}
                   /\ calls' = Logged([op |-> "allocate", arg |-> NULL, ret |-> block])
                   /\ fresh' = IF fresh.only_allocs
                               THEN [fresh EXCEPT !.rets = Append(@, block)]
                               ELSE fresh
            /\ UNCHANGED mem
    /\ UNCHANGED <<memory_start_, block_size_, block_count_>>
    /\ UNCHANGED <<saVars, tsVars, msVars, utilVars, hyVars, fsVars>>

\* deallocate without block->next = free_list_
Deallocate_nolink(ptr) ==
    /\ calls' = Logged([op |-> "deallocate", arg |-> ptr, ret |-> NULL])
    /\ fresh' = [fresh EXCEPT !.only_allocs = FALSE]
    /\ IF ptr = NULL
       THEN UNCHANGED <<free_list_, mem, stats_, outstanding>>
       ELSE IF ~owns(ptr)
       THEN UNCHANGED <<free_list_, mem, stats_, outstanding>>
       ELSE LET block == ptr
            IN  /\ mem' = mem
                /\ free_list_' = block
                /\ stats_' = recordDeallocation(stats_, block_size_)
                /\ outstanding' = outstanding \ {ptr}
    /\ UNCHANGED <<memory_start_, block_size_, block_count_>>
    /\ UNCHANGED <<saVars, tsVars, msVars, utilVars, hyVars, fsVars>>

\* deallocate that puts the block behind the head of a non-empty free list
Deallocate_behind(ptr) ==
    /\ calls' = Logged([op |-> "deallocate", arg |-> ptr, ret |-> NULL])
    /\ fresh' = [fresh EXCEPT !.only_allocs = FALSE]
    /\ IF ptr = NULL
       THEN UNCHANGED <<free_list_, mem, stats_, outstanding>>
       ELSE IF ~owns(ptr)
       THEN UNCHANGED <<free_list_, mem, stats_, outstanding>>
       ELSE LET block == ptr
            IN  /\ IF free_list_ = NULL
                   THEN /\ mem' = [mem EXCEPT ![block] = NULL]
                        /\ free_list_' = block
                   ELSE /\ mem' = [mem EXCEPT ![block] = mem[free_list_],
                                              ![free_list_] = block]
                        /\ UNCHANGED free_list_
                /\ stats_' = recordDeallocation(stats_, block_size_)
                /\ outstanding' = outstanding \ {ptr}
    /\ UNCHANGED <<memory_start_, block_size_, block_count_>>
    /\ UNCHANGED <<saVars, tsVars, msVars, utilVars, hyVars, fsVars>>

\* deallocate that turns away a block that is the head of the free list already
Deallocate_checked(ptr) ==
    /\ calls' = Logged([op |-> "deallocate", arg |-> ptr, ret |-> NULL])
    /\ fresh' = [fresh EXCEPT !.only_allocs = FALSE]
    /\ IF ptr = NULL
       THEN UNCHANGED <<free_list_, mem, stats_, outstanding>>
       ELSE IF ~owns(ptr) \/ ptr = free_list_
       THEN UNCHANGED <<free_list_, mem, stats_, outstanding>>
       ELSE LET block == ptr
            IN  /\ mem' = [mem EXCEPT ![block] = free_list_]
                /\ free_list_' = block
                /\ stats_' = recordDeallocation(stats_, block_size_)
                /\ outstanding' = outstanding \ {ptr}
    /\ UNCHANGED <<memory_start_, block_size_, block_count_>>
    /\ UNCHANGED <<saVars, tsVars, msVars, utilVars, hyVars, fsVars>>

\* FixedBlockPool::deallocate
Deallocate(ptr) ==
    /\ calls' = Logged([op |-> "deallocate", arg |-> ptr, ret |-> NULL])
    /\ fresh' = [fresh EXCEPT !.only_allocs = FALSE]
    /\ IF ptr = NULL
       THEN UNCHANGED <<free_list_, mem, stats_, outstanding>>
       ELSE IF ~owns(ptr)
       THEN UNCHANGED <<free_list_, mem, stats_, outstanding>>
       ELSE LET block == ptr
            IN  /\ mem' = [mem EXCEPT ![block] = free_list_]
                /\ free_list_' = block
                /\ stats_' = recordDeallocation(stats_, block_size_)
                /\ outstanding' = outstanding \ {ptr}
    /\ UNCHANGED <<memory_start_, block_size_, block_count_>>
    /\ UNCHANGED <<saVars, tsVars, msVars, utilVars, hyVars, fsVars>>

\* pointers that are not in [memory_start_, memory_start_ + block_size_*block_count_)
ForeignPtrs ==
    LET end == memory_start_ + block_size_ * block_count_
    IN  {memory_start_ - 1, end}

\* the caller stores data in a block it holds (the union's data member)
UserWrite(ptr, v) ==
    /\ ptr \in DOMAIN mem
    /\ mem[ptr] # v
    /\ mem' = [mem EXCEPT ![ptr] = v]
    /\ UNCHANGED <<memory_start_, free_list_, block_size_, block_count_, stats_,
                   outstanding, calls, fresh>>
    /\ UNCHANGED <<saVars, tsVars, msVars, utilVars, hyVars, fsVars>>


----------------------------------------------------------------------------
(* StackAllocator *)

\* the address ::operator new returned for the buffer
StackBase == 256

\* capacities given to the constructor
Capacities == {MaxCapacity}

\* sizes and alignments asked of allocate()
AllocSizes == {5, WordMod - 2}

Alignments == {1, 4, MaxAlign}

NoMarker == [offset |-> 0, taken |-> FALSE]

NoCall == [op |-> "construct", size |-> 0, alignment |-> 0, marker |-> 0,
           ret |-> NULL, round_trip |-> FALSE]

\* the allocator's own fields, as one value
StackState == [offset |-> offset_, stats |-> stack_stats_, markers |-> markers_]

\* StackAllocator::StackAllocator(capacity)
StackConstruct(capacity) ==
    /\ buffer_ = StackBase
    /\ capacity_ = capacity
    /\ offset_ = 0
    /\ stack_stats_ = NewStats
    /\ markers_ = <<>>
    /\ held = NoMarker
    /\ stack_call = NoCall
    /\ scopes = <<>>
    /\ regions = {}

\* the padding allocate() puts before the block: aligned_addr - current_addr
Padding(offset, alignment) ==
    LET current_addr == Wrap(buffer_ + offset)
        aligned_addr == alignUp(current_addr, alignment)
    IN  Wrap(aligned_addr - current_addr)

\* allocate without the new_offset > capacity_ test
allocate_unchecked(s, size, alignment) ==
    LET padding    == Padding(s.offset, alignment)
        new_offset == Wrap(s.offset + padding + size)
    IN  [state |-> [s EXCEPT !.offset = new_offset,
                             !.stats = recordAllocation(s.stats, size)],
         ret |-> Wrap(buffer_ + s.offset + padding)]

\* StackAllocator::allocate on state s: the state after it and the pointer returned
allocate(s, size, alignment) ==
    LET padding    == Padding(s.offset, alignment)
        new_offset == Wrap(s.offset + padding + size)
    IN  IF new_offset > capacity_
        THEN [state |-> s, ret |-> NULL]
        ELSE [state |-> [s EXCEPT !.offset = new_offset,
                                  !.stats = recordAllocation(s.stats, size)],
              ret |-> Wrap(buffer_ + s.offset + padding)]

\* freeToMarker without the marker.offset > offset_ test
freeToMarker_unchecked(s, marker) ==
    LET freed == s.offset - marker
    IN  [s EXCEPT !.offset = marker,
                  !.stats = recordDeallocation(s.stats, freed)]

\* StackAllocator::freeToMarker on state s
freeToMarker(s, marker) ==
    IF marker > s.offset
    THEN s
    ELSE LET freed == s.offset - marker
         IN  [s EXCEPT !.offset = marker,
                       !.stats = recordDeallocation(s.stats, freed)]

\* clear without the freed > 0 test
clear_always(s) ==
    LET freed == s.offset
    IN  [s EXCEPT !.offset = 0,
                  !.stats = recordDeallocation(s.stats, freed)]

\* StackAllocator::clear on state s
clear(s) ==
    LET freed == s.offset
    IN  [s EXCEPT !.offset = 0,
                  !.stats = IF freed > 0 THEN recordDeallocation(s.stats, freed)
                            ELSE s.stats]

\* StackAllocator::pushMarker on state s (getMarker is Marker{offset_})
pushMarker(s) == [s EXCEPT !.markers = Append(@, s.offset)]

\* StackAllocator::pop_marker on state s
pop_marker(s) ==
    IF s.markers = <<>>
    THEN s
    ELSE LET marker == s.markers[Len(s.markers)]
         IN  freeToMarker([s EXCEPT !.markers = SubSeq(@, 1, Len(@) - 1)], marker)

\* StackAllocator::used, StackAllocator::available
used == offset_

available == Wrap(capacity_ - offset_)

\* the fields take the values of state s; the statistics stay within the model's bound
StackBecomes(s) ==
    /\ s.stats.allocation_count <= MaxStackOps
    /\ s.stats.deallocation_count <= MaxStackOps
    /\ offset_' = s.offset
    /\ stack_stats_' = s.stats
    /\ markers_' = s.markers
    /\ UNCHANGED <<buffer_, capacity_>>
    /\ UNCHANGED <<fbVars, tsVars, paVars, msVars, utilVars, hyVars, fsVars>>

\* the scopes after a call that is no allocate(): none has seen only allocate()
Disturbed(sc) == [i \in DOMAIN sc |-> [sc[i] EXCEPT !.only_allocs = FALSE]]

\* p = allocate(size, alignment)
StackAllocate(size, alignment) ==
    LET r == allocate(StackState, size, alignment)
    IN  /\ StackBecomes(r.state)
        /\ stack_call' = [NoCall EXCEPT !.op = "allocate", !.size = size,
                                        !.alignment = alignment, !.ret = r.ret]
        /\ regions' = IF r.ret = NULL THEN regions
                      ELSE regions \cup {[p |-> r.ret, size |-> size]}
        /\ UNCHANGED <<held, scopes>>

\* m = getMarker()
GetMarker ==
    /\ held' = [offset |-> offset_, taken |-> TRUE]
    /\ stack_call' = [NoCall EXCEPT !.op = "getMarker", !.marker = offset_]
    /\ UNCHANGED <<buffer_, capacity_, offset_, stack_stats_, markers_, scopes, regions>>
    /\ UNCHANGED <<fbVars, tsVars, paVars, msVars, utilVars, hyVars, fsVars>>

\* freeToMarker(Marker{marker}); the caller's marker, if it is the one used, has
\* seen nothing but allocate() since it was taken
FreeToMarker(marker) ==
    /\ StackBecomes(freeToMarker(StackState, marker))
    /\ stack_call' = [NoCall EXCEPT !.op = "freeToMarker", !.marker = marker,
                                    !.round_trip = held.taken /\ held.offset = marker]
    /\ held' = NoMarker
    /\ scopes' = Disturbed(scopes)
    /\ regions' = {}

Clear ==
    /\ StackBecomes(clear(StackState))
    /\ stack_call' = [NoCall EXCEPT !.op = "clear", !.size = offset_]
    /\ held' = NoMarker
    /\ scopes' = Disturbed(scopes)
    /\ regions' = {}

\* StackAllocatorScope::StackAllocatorScope: allocator_.pushMarker()
PushMarker ==
    /\ Len(markers_) < MaxMarkers
    /\ StackBecomes(pushMarker(StackState))
    /\ stack_call' = [NoCall EXCEPT !.op = "pushMarker", !.marker = offset_]
    /\ held' = NoMarker
    /\ scopes' = Append(scopes, [entry |-> used, only_allocs |-> TRUE])
    /\ UNCHANGED regions

\* StackAllocatorScope::~StackAllocatorScope: allocator_.pop_marker(); with no scope
\* alive it is a call of pop_marker() by the caller itself
PopMarker ==
    /\ StackBecomes(pop_marker(StackState))
    /\ stack_call' = [NoCall EXCEPT !.op = "pop_marker"]
    /\ held' = NoMarker
    /\ scopes' = IF scopes = <<>> THEN scopes ELSE SubSeq(scopes, 1, Len(scopes) - 1)
    /\ regions' = {}

\* markers handed to freeToMarker: the start, the end, the caller's own
MarkerArgs == {0, capacity_} \cup (IF held.taken THEN {held.offset} ELSE {})

----------------------------------------------------------------------------
(* ThreadSafeFixedPool *)

\* the address ::operator new returned for the arena
TsArenaBase == 1024

\* sizeof(Block *) and alignof(Block) of struct Block { Block * next; }
TsBlockAlign == 8

Threads == 1 .. threads

TsBlockAddrs ==
    {BlockAddr(ts_memory_start_, ts_block_size_, i) : i \in 0 .. ts_block_count_ - 1}

\* pointers to words of the caller's own, not in the arena: the word before it and
\* the word after it
TsForeign(start, size, count) == {start - size, start + size * count}

TsForeignPtrs == TsForeign(ts_memory_start_, ts_block_size_, ts_block_count_)

\* ThreadSafeFixedPool::ThreadSafeFixedPool(block_size, block_count), with n threads
\* about to call the pool and the caller's own words holding its data
TsConstruct(block_size, block_count, n) ==
    LET bs    == alignUp(Max(block_size, PointerSize), TsBlockAlign)
        addrs == {BlockAddr(TsArenaBase, bs, i) : i \in 0 .. block_count - 1}
        fl    == initFreeList(TsArenaBase, bs, block_count, NULL,
                              [a \in addrs |-> NULL])
    IN  /\ ts_memory_start_ = TsArenaBase
        /\ ts_block_count_ = block_count
        /\ ts_block_size_ = bs
        /\ ts_free_list_ = fl.free_list
        /\ ts_mem = [a \in addrs \cup TsForeign(TsArenaBase, bs, block_count) |->
                        IF a \in addrs THEN fl.mem[a] ELSE 42]
        /\ ts_stats_ = NewStats
        /\ threads = n
        /\ pc = [t \in 1 .. n |-> "idle"]
        /\ old_head = [t \in 1 .. n |-> NULL]
        /\ new_head = [t \in 1 .. n |-> NULL]
        /\ ts_block = [t \in 1 .. n |-> NULL]
        /\ holds = [t \in 1 .. n |-> NULL]
        /\ started = 0
        /\ strays = 0

\* what only the constructor sets, and the count only a stray deallocate() raises
TsPoolUnchanged ==
    UNCHANGED <<ts_memory_start_, ts_block_size_, ts_block_count_, threads, strays>>

\* allocate(): Block * old_head = free_list_.load(); while (old_head != nullptr)
TsAllocLoad(t) ==
    /\ pc[t] = "idle" /\ holds[t] = NULL /\ started < MaxAllocCalls
    /\ started' = started + 1
    /\ old_head' = [old_head EXCEPT ![t] = ts_free_list_]
    /\ pc' = [pc EXCEPT ![t] = IF ts_free_list_ # NULL THEN "a_next" ELSE "idle"]
    /\ UNCHANGED <<ts_free_list_, ts_stats_, ts_mem, new_head, ts_block, holds>>
    /\ TsPoolUnchanged
    /\ UNCHANGED <<fbVars, saVars, paVars, msVars, utilVars, hyVars, fsVars>>

\* allocate(): Block * new_head = old_head->next. The read is not atomic: it takes
\* the word as it is at this step, whoever holds the block. old_head may be any
\* address by now: reading through one that points to no word of the model either faults
\* or yields some word
TsAllocNext(t) ==
    /\ pc[t] = "a_next"
    /\ IF old_head[t] \in DOMAIN ts_mem
       THEN /\ new_head' = [new_head EXCEPT ![t] = ts_mem[old_head[t]]]
            /\ pc' = [pc EXCEPT ![t] = "a_cas"]
       ELSE \/ /\ pc' = [pc EXCEPT ![t] = "fault"]
               /\ UNCHANGED new_head
            \/ \E w \in WildReads :
                  /\ new_head' = [new_head EXCEPT ![t] = w]
                  /\ pc' = [pc EXCEPT ![t] = "a_cas"]
    /\ UNCHANGED <<ts_free_list_, ts_stats_, ts_mem, old_head, ts_block, holds, started>>
    /\ TsPoolUnchanged
    /\ UNCHANGED <<fbVars, saVars, paVars, msVars, utilVars, hyVars, fsVars>>

\* the compare-exchange of allocate() with a lost race ending the call: allocate()
\* returns nullptr instead of trying again
TsAllocCas_giveup(t) ==
    /\ pc[t] = "a_cas"
    /\ IF ts_free_list_ = old_head[t]
       THEN /\ ts_free_list_' = new_head[t]
            /\ pc' = [pc EXCEPT ![t] = "a_stats"]
            /\ UNCHANGED old_head
       ELSE /\ old_head' = [old_head EXCEPT ![t] = NULL]
            /\ pc' = [pc EXCEPT ![t] = "idle"]
            /\ UNCHANGED ts_free_list_
    /\ UNCHANGED <<ts_stats_, ts_mem, new_head, ts_block, holds, started>>
    /\ TsPoolUnchanged
    /\ UNCHANGED <<fbVars, saVars, paVars, msVars, utilVars, hyVars, fsVars>>

\* allocate(): free_list_.compare_exchange_weak(old_head, new_head)
TsAllocCas(t) ==
    /\ pc[t] = "a_cas"
    /\ IF ts_free_list_ = old_head[t]
       THEN /\ ts_free_list_' = new_head[t]
            /\ pc' = [pc EXCEPT ![t] = "a_stats"]
            /\ UNCHANGED old_head
       ELSE /\ old_head' = [old_head EXCEPT ![t] = ts_free_list_]
            /\ pc' = [pc EXCEPT ![t] = IF ts_free_list_ # NULL THEN "a_next" ELSE "idle"]
            /\ UNCHANGED ts_free_list_
    /\ UNCHANGED <<ts_stats_, ts_mem, new_head, ts_block, holds, started>>
    /\ TsPoolUnchanged
    /\ UNCHANGED <<fbVars, saVars, paVars, msVars, utilVars, hyVars, fsVars>>

\* compare_exchange_weak may fail although free_list_ == old_head
TsAllocCasSpurious(t) ==
    /\ pc[t] = "a_cas"
    /\ ts_free_list_ = old_head[t]
    /\ pc' = [pc EXCEPT ![t] = "a_next"]
    /\ UNCHANGED <<ts_free_list_, ts_stats_, ts_mem, old_head, new_head, ts_block, holds, started>>
    /\ TsPoolUnchanged
    /\ UNCHANGED <<fbVars, saVars, paVars, msVars, utilVars, hyVars, fsVars>>

\* allocate(): lock_guard; stats_.record_allocation(block_size_); return old_head
TsAllocStats(t) ==
    /\ pc[t] = "a_stats"
    /\ ts_stats_' = recordAllocation(ts_stats_, ts_block_size_)
    /\ holds' = [holds EXCEPT ![t] = old_head[t]]
    /\ pc' = [pc EXCEPT ![t] = "idle"]
    /\ UNCHANGED <<ts_free_list_, ts_mem, old_head, new_head, ts_block, started>>
    /\ TsPoolUnchanged
    /\ UNCHANGED <<fbVars, saVars, paVars, msVars, utilVars, hyVars, fsVars>>

\* the caller stores data in the block it holds
TsUserWrite(t, v) ==
    /\ pc[t] = "idle" /\ holds[t] \in DOMAIN ts_mem
    /\ ts_mem[holds[t]] # v
    /\ ts_mem' = [ts_mem EXCEPT ![holds[t]] = v]
    /\ UNCHANGED <<ts_free_list_, ts_stats_, pc, old_head, new_head, ts_block, holds, started>>
    /\ TsPoolUnchanged
    /\ UNCHANGED <<fbVars, saVars, paVars, msVars, utilVars, hyVars, fsVars>>

\* deallocate(ptr) of the block held: block = ptr; old_head = free_list_.load()
TsDeallocLoad(t) ==
    /\ pc[t] = "idle" /\ holds[t] # NULL
    /\ ts_block' = [ts_block EXCEPT ![t] = holds[t]]
    /\ holds' = [holds EXCEPT ![t] = NULL]
    /\ old_head' = [old_head EXCEPT ![t] = ts_free_list_]
    /\ pc' = [pc EXCEPT ![t] = "d_link"]
    /\ UNCHANGED <<ts_free_list_, ts_stats_, ts_mem, new_head, started>>
    /\ TsPoolUnchanged
    /\ UNCHANGED <<fbVars, saVars, paVars, msVars, utilVars, hyVars, fsVars>>

\* deallocate(): block->next = old_head. Writing through a block that points to
\* no word of the model either faults or lands somewhere else
TsDeallocLink(t) ==
    /\ pc[t] = "d_link"
    /\ IF ts_block[t] \in DOMAIN ts_mem
       THEN /\ ts_mem' = [ts_mem EXCEPT ![ts_block[t]] = old_head[t]]
            /\ pc' = [pc EXCEPT ![t] = "d_cas"]
       ELSE /\ pc' \in {[pc EXCEPT ![t] = "fault"], [pc EXCEPT ![t] = "d_cas"]}
            /\ UNCHANGED ts_mem
    /\ UNCHANGED <<ts_free_list_, ts_stats_, old_head, new_head, ts_block, holds, started>>
    /\ TsPoolUnchanged
    /\ UNCHANGED <<fbVars, saVars, paVars, msVars, utilVars, hyVars, fsVars>>

\* deallocate(): free_list_.compare_exchange_weak(old_head, block)
TsDeallocCas(t) ==
    /\ pc[t] = "d_cas"
    /\ IF ts_free_list_ = old_head[t]
       THEN /\ ts_free_list_' = ts_block[t]
            /\ pc' = [pc EXCEPT ![t] = "d_stats"]
            /\ UNCHANGED old_head
       ELSE /\ old_head' = [old_head EXCEPT ![t] = ts_free_list_]
            /\ pc' = [pc EXCEPT ![t] = "d_link"]
            /\ UNCHANGED ts_free_list_
    /\ UNCHANGED <<ts_stats_, ts_mem, new_head, ts_block, holds, started>>
    /\ TsPoolUnchanged
    /\ UNCHANGED <<fbVars, saVars, paVars, msVars, utilVars, hyVars, fsVars>>

\* compare_exchange_weak may fail although free_list_ == old_head
TsDeallocCasSpurious(t) ==
    /\ pc[t] = "d_cas"
    /\ ts_free_list_ = old_head[t]
    /\ pc' = [pc EXCEPT ![t] = "d_link"]
    /\ UNCHANGED <<ts_free_list_, ts_stats_, ts_mem, old_head, new_head, ts_block, holds, started>>
    /\ TsPoolUnchanged
    /\ UNCHANGED <<fbVars, saVars, paVars, msVars, utilVars, hyVars, fsVars>>

\* deallocate(): lock_guard; stats_.record_deallocation(block_size_); return
TsDeallocStats(t) ==
    /\ pc[t] = "d_stats"
    /\ ts_stats_' = recordDeallocation(ts_stats_, ts_block_size_)
    /\ pc' = [pc EXCEPT ![t] = "idle"]
    /\ UNCHANGED <<ts_free_list_, ts_mem, old_head, new_head, ts_block, holds, started>>
    /\ TsPoolUnchanged
    /\ UNCHANGED <<fbVars, saVars, paVars, msVars, utilVars, hyVars, fsVars>>

\* a stray deallocate() call is made: the constructor's fields stay
TsStray ==
    /\ strays < MaxStrays
    /\ strays' = strays + 1
    /\ UNCHANGED <<ts_memory_start_, ts_block_size_, ts_block_count_, threads>>

\* deallocate(nullptr): if (ptr == nullptr) return
TsDeallocNull(t) ==
    /\ pc[t] = "idle"
    /\ TsStray
    /\ UNCHANGED <<ts_free_list_, ts_stats_, ts_mem, pc, old_head, new_head, ts_block,
                   holds, started>>
    /\ UNCHANGED <<fbVars, saVars, paVars, msVars, utilVars, hyVars, fsVars>>

\* deallocate(ptr) of a pointer the caller does not hold, up to the load of
\* free_list_: nothing in deallocate() asks where ptr points
TsDeallocStray(t, ptr) ==
    /\ pc[t] = "idle"
    /\ TsStray
    /\ ts_block' = [ts_block EXCEPT ![t] = ptr]
    /\ old_head' = [old_head EXCEPT ![t] = ts_free_list_]
    /\ pc' = [pc EXCEPT ![t] = "d_link"]
    /\ UNCHANGED <<ts_free_list_, ts_stats_, ts_mem, new_head, holds, started>>
    /\ UNCHANGED <<fbVars, saVars, paVars, msVars, utilVars, hyVars, fsVars>>

\* deallocate(ptr) with ptr outside the arena
TsDeallocForeign(t) == \E ptr \in TsForeignPtrs : TsDeallocStray(t, ptr)

\* deallocate(p) once more, of the block p the thread has just given back
TsDeallocAgain(t) ==
    /\ holds[t] = NULL
    /\ ts_block[t] \in TsBlockAddrs
    /\ TsDeallocStray(t, ts_block[t])

\* the free list of the thread-safe pool, walked as Walk does
RECURSIVE TsWalk(_, _)
TsWalk(p, n) ==
    IF p = NULL \/ n = 0 THEN <<>>
    ELSE IF p \notin TsBlockAddrs THEN <<p>>
    ELSE <<p>> \o TsWalk(ts_mem[p], n - 1)

TsFreeBlocks == TsWalk(ts_free_list_, ts_block_count_ + 1)

----------------------------------------------------------------------------
(* PoolAllocator<T> *)

\* no PoolAllocator call has been made
NoPaCall == [op |-> "none", a |-> 0, n |-> 0, ptr |-> NULL, outcome |-> "ok", route |-> "none"]

\* no PoolAllocator is there
NoAllocator ==
    /\ allocators = <<>>
    /\ heap = {}
    /\ pa_live = {}
    /\ pa_call = NoPaCall

\* sizeof(T) of the value types the allocators are used with: int and double
ValueSizes == {4, 8}

\* sizeof(T) of the value types an allocator is converted to: those, and a struct of
\* three doubles
RebindSizes == ValueSizes \cup {24}

\* where the global allocator places what ::operator new returns, apart from any arena
HeapBase == 8192

\* the room one allocation of the global allocator takes
HeapChunk == 48

HeapAddrs == {HeapBase + i * HeapChunk : i \in 0 .. MaxHeap - 1}

\* PoolAllocator<T>::max_size with sizeof(T) == size
max_size(size) == (WordMod - 1) \div size

\* the n given to allocate(n): none, one, a few, too many
Counts(size) == {0, 1, 2, max_size(size) + 1}

\* PoolAllocator<T>::PoolAllocator(block_count): pool_(new FixedBlockPool(sizeof(T),
\* block_count)), owns_pool_(true)
PaConstruct(size, block_count) ==
    /\ Construct(size, block_count)
    /\ allocators = <<[owns_pool_ |-> TRUE, size |-> size, alive |-> TRUE]>>
    /\ heap = {}
    /\ pa_live = {}
    /\ pa_call = NoPaCall

\* PoolAllocator(const PoolAllocator & other): pool_(other.pool_), owns_pool_(false)
PaCopy(other) ==
    /\ allocators' = Append(allocators, [owns_pool_ |-> FALSE, size |-> allocators[other].size,
                                         alive |-> TRUE])
    /\ UNCHANGED <<heap, pa_live, pa_call>>
    /\ UNCHANGED <<fbVars, saVars, tsVars, msVars, utilVars, hyVars, fsVars>>

\* PoolAllocator<T>(const PoolAllocator<U> & other): pool_(other.get_pool()),
\* owns_pool_(false), with sizeof(T) == size
PaRebind(other, size) ==
    /\ allocators' = Append(allocators, [owns_pool_ |-> FALSE, size |-> size, alive |-> TRUE])
    /\ UNCHANGED <<heap, pa_live, pa_call>>
    /\ UNCHANGED <<fbVars, saVars, tsVars, msVars, utilVars, hyVars, fsVars>>

\* PoolAllocator::~PoolAllocator of allocator a: if (owns_pool_) delete pool_. The
\* object is gone after it; the pool is gone when an allocator with owns_pool_ is
\* (PoolDeleted), and ~FixedBlockPool releases the arena without writing a field
PaDestroy(a) ==
    /\ allocators[a].alive
    /\ allocators' = [allocators EXCEPT ![a].alive = FALSE]
    /\ UNCHANGED <<heap, pa_live, pa_call>>
    /\ UNCHANGED <<fbVars, saVars, tsVars, msVars, utilVars, hyVars, fsVars>>

\* the allocators whose destructor ran delete pool_
Deleters == {a \in DOMAIN allocators : ~allocators[a].alive /\ allocators[a].owns_pool_}

\* the FixedBlockPool has been deleted
PoolDeleted == Deleters # {}

\* allocate(n) that takes a pool block for two objects as well
PaAllocate_two(a, n) ==
    LET size    == allocators[a].size
        call    == [op |-> "allocate", a |-> a, n |-> n, ptr |-> NULL,
                    outcome |-> "ok", route |-> "none"]
    IN  /\ pa_call.outcome # "fault"
        /\ UNCHANGED allocators
        /\ IF n = 0
           THEN /\ pa_call' = call
                /\ UNCHANGED <<heap, pa_live>>
                /\ UNCHANGED <<fbVars, saVars, tsVars, msVars, utilVars, hyVars, fsVars>>
           ELSE IF n > max_size(size)
           THEN /\ pa_call' = [call EXCEPT !.outcome = "bad_array_new_length"]
                /\ UNCHANGED <<heap, pa_live>>
                /\ UNCHANGED <<fbVars, saVars, tsVars, msVars, utilVars, hyVars, fsVars>>
           ELSE IF n <= 2
           THEN \* void * ptr = pool_->allocate(); if (!ptr) throw std::bad_alloc()
                /\ Allocate
                /\ IF free_list_ = NULL
                   THEN /\ pa_call' = [call EXCEPT !.outcome = "bad_alloc", !.route = "pool"]
                        /\ UNCHANGED pa_live
                   ELSE /\ pa_call' = [call EXCEPT !.ptr = free_list_, !.route = "pool"]
                        /\ pa_live' = pa_live \cup {[ptr |-> free_list_, n |-> n]}
                /\ UNCHANGED heap
           ELSE \* ::operator new(n * sizeof(T)), which throws when it has no room
                /\ IF HeapAddrs \ heap = {} \/ n * size > HeapChunk
                   THEN /\ pa_call' = [call EXCEPT !.outcome = "bad_alloc", !.route = "global"]
                        /\ UNCHANGED <<heap, pa_live>>
                   ELSE \E p \in HeapAddrs \ heap :
                           /\ heap' = heap \cup {p}
                           /\ pa_call' = [call EXCEPT !.ptr = p, !.route = "global"]
                           /\ pa_live' = pa_live \cup {[ptr |-> p, n |-> n]}
                /\ UNCHANGED <<fbVars, saVars, tsVars, msVars, utilVars, hyVars, fsVars>>

\* allocate(n) that turns to ::operator new when the pool has no block left
PaAllocate_fallback(a, n) ==
    LET size    == allocators[a].size
        call    == [op |-> "allocate", a |-> a, n |-> n, ptr |-> NULL,
                    outcome |-> "ok", route |-> "none"]
    IN  /\ pa_call.outcome # "fault"
        /\ UNCHANGED allocators
        /\ IF n = 0
           THEN /\ pa_call' = call
                /\ UNCHANGED <<heap, pa_live>>
                /\ UNCHANGED <<fbVars, saVars, tsVars, msVars, utilVars, hyVars, fsVars>>
           ELSE IF n > max_size(size)
           THEN /\ pa_call' = [call EXCEPT !.outcome = "bad_array_new_length"]
                /\ UNCHANGED <<heap, pa_live>>
                /\ UNCHANGED <<fbVars, saVars, tsVars, msVars, utilVars, hyVars, fsVars>>
           ELSE IF n = 1 /\ free_list_ # NULL
           THEN /\ Allocate
                /\ pa_call' = [call EXCEPT !.ptr = free_list_, !.route = "pool"]
                /\ pa_live' = pa_live \cup {[ptr |-> free_list_, n |-> n]}
                /\ UNCHANGED heap
           ELSE /\ IF HeapAddrs \ heap = {} \/ n * size > HeapChunk
                   THEN /\ pa_call' = [call EXCEPT !.outcome = "bad_alloc", !.route = "global"]
                        /\ UNCHANGED <<heap, pa_live>>
                   ELSE \E p \in HeapAddrs \ heap :
                           /\ heap' = heap \cup {p}
                           /\ pa_call' = [call EXCEPT !.ptr = p, !.route = "global"]
                           /\ pa_live' = pa_live \cup {[ptr |-> p, n |-> n]}
                /\ IF n = 1
                   THEN Allocate
                   ELSE UNCHANGED <<fbVars, saVars, tsVars, msVars, utilVars, hyVars, fsVars>>

\* PoolAllocator::allocate(n) through allocator a
PaAllocate(a, n) ==
    LET size    == allocators[a].size
        call    == [op |-> "allocate", a |-> a, n |-> n, ptr |-> NULL,
                    outcome |-> "ok", route |-> "none"]
    IN  /\ pa_call.outcome # "fault"
        /\ UNCHANGED allocators
        /\ IF n = 0
           THEN /\ pa_call' = call
                /\ UNCHANGED <<heap, pa_live>>
                /\ UNCHANGED <<fbVars, saVars, tsVars, msVars, utilVars, hyVars, fsVars>>
           ELSE IF n > max_size(size)
           THEN /\ pa_call' = [call EXCEPT !.outcome = "bad_array_new_length"]
                /\ UNCHANGED <<heap, pa_live>>
                /\ UNCHANGED <<fbVars, saVars, tsVars, msVars, utilVars, hyVars, fsVars>>
           ELSE IF n = 1
           THEN \* void * ptr = pool_->allocate(); if (!ptr) throw std::bad_alloc()
                /\ Allocate
                /\ IF free_list_ = NULL
                   THEN /\ pa_call' = [call EXCEPT !.outcome = "bad_alloc", !.route = "pool"]
                        /\ UNCHANGED pa_live
                   ELSE /\ pa_call' = [call EXCEPT !.ptr = free_list_, !.route = "pool"]
                        /\ pa_live' = pa_live \cup {[ptr |-> free_list_, n |-> n]}
                /\ UNCHANGED heap
           ELSE \* ::operator new(n * sizeof(T)), which throws when it has no room
                /\ IF HeapAddrs \ heap = {} \/ n * size > HeapChunk
                   THEN /\ pa_call' = [call EXCEPT !.outcome = "bad_alloc", !.route = "global"]
                        /\ UNCHANGED <<heap, pa_live>>
                   ELSE \E p \in HeapAddrs \ heap :
                           /\ heap' = heap \cup {p}
                           /\ pa_call' = [call EXCEPT !.ptr = p, !.route = "global"]
                           /\ pa_live' = pa_live \cup {[ptr |-> p, n |-> n]}
                /\ UNCHANGED <<fbVars, saVars, tsVars, msVars, utilVars, hyVars, fsVars>>

\* deallocate(ptr, n) that gives every pointer to ::operator delete
PaDeallocate_global(a, ptr, n) ==
    LET call == [op |-> "deallocate", a |-> a, n |-> n, ptr |-> ptr,
                 outcome |-> "ok", route |-> "none"]
    IN  /\ pa_call.outcome # "fault"
        /\ UNCHANGED allocators
        /\ IF ptr = NULL
           THEN /\ pa_call' = call
                /\ UNCHANGED <<heap, pa_live>>
                /\ UNCHANGED <<fbVars, saVars, tsVars, msVars, utilVars, hyVars, fsVars>>
           ELSE /\ IF ptr \in heap
                   THEN /\ heap' = heap \ {ptr}
                        /\ pa_call' = [call EXCEPT !.route = "global"]
                   ELSE /\ UNCHANGED heap
                        /\ pa_call' \in {[call EXCEPT !.route = "global"],
                                          [call EXCEPT !.route = "global",
                                                       !.outcome = "fault"]}
                /\ pa_live' = pa_live \ {[ptr |-> ptr, n |-> n]}
                /\ UNCHANGED <<fbVars, saVars, tsVars, msVars, utilVars, hyVars, fsVars>>

\* PoolAllocator::deallocate(ptr, n) through allocator a. ::operator delete of a
\* pointer ::operator new did not return is undefined: the program faults, or
\* goes on with nothing freed
PaDeallocate(a, ptr, n) ==
    LET call == [op |-> "deallocate", a |-> a, n |-> n, ptr |-> ptr,
                 outcome |-> "ok", route |-> "none"]
    IN  /\ pa_call.outcome # "fault"
        /\ UNCHANGED allocators
        /\ IF ptr = NULL
           THEN /\ pa_call' = call
                /\ UNCHANGED <<heap, pa_live>>
                /\ UNCHANGED <<fbVars, saVars, tsVars, msVars, utilVars, hyVars, fsVars>>
           ELSE IF n = 1 /\ owns(ptr)
           THEN /\ Deallocate(ptr)
                /\ pa_call' = [call EXCEPT !.route = "pool"]
                /\ pa_live' = pa_live \ {[ptr |-> ptr, n |-> n]}
                /\ UNCHANGED heap
           ELSE /\ IF ptr \in heap
                   THEN /\ heap' = heap \ {ptr}
                        /\ pa_call' = [call EXCEPT !.route = "global"]
                   ELSE /\ UNCHANGED heap
                        /\ pa_call' \in {[call EXCEPT !.route = "global"],
                                          [call EXCEPT !.route = "global",
                                                       !.outcome = "fault"]}
                /\ pa_live' = pa_live \ {[ptr |-> ptr, n |-> n]}
                /\ UNCHANGED <<fbVars, saVars, tsVars, msVars, utilVars, hyVars, fsVars>>

----------------------------------------------------------------------------
(* HybridThreadPool *)

\* the most instances, threads, blocks of an instance and allocate() calls
MaxInstances == 2

MaxHyThreads == 2

MaxHyBlocks == 2

MaxHyCalls == 4

\* static constexpr size_t LOCAL_CACHE_SIZE
LOCAL_CACHE_SIZE == 64

\* the address ::operator new returned for the arena of instance i's global_pool_
HyArenaBase(i) == 4096 + (i - 1) * 256

\* the block size of a global_pool_ asked for blocks of a pointer
HyBlockSize == alignUp(Max(PointerSize, PointerSize), TsBlockAlign)

\* the blocks of instance i's global_pool_
HyBlocksOf(i, block_count) ==
    {BlockAddr(HyArenaBase(i), HyBlockSize, k) : k \in 0 .. block_count - 1}

NoHyCall == [op |-> "none", pool |-> 0, t |-> 0, ptr |-> NULL, made |-> 0]

\* no HybridThreadPool is there
NoHybrid ==
    /\ hy_free = <<>>
    /\ hy_stats = <<>>
    /\ hy_cache = <<>>
    /\ hy_held = <<>>
    /\ hy_call = NoHyCall

\* n instances HybridThreadPool(sizeof(void *), block_count), each with the free list
\* init_free_list builds, and the threads with their thread_local cache_ empty
HyConstruct(n, block_count, nthreads) ==
    /\ hy_free = [i \in 1 .. n |->
                    [k \in 1 .. block_count |-> BlockAddr(HyArenaBase(i), HyBlockSize, k - 1)]]
    /\ hy_stats = [i \in 1 .. n |-> NewStats]
    /\ hy_cache = [t \in 1 .. nthreads |-> <<>>]
    /\ hy_held = [t \in 1 .. nthreads |-> {}]
    /\ hy_call = NoHyCall

HyInstances == DOMAIN hy_free

HyThreads == DOMAIN hy_cache

\* HybridThreadPool::allocate on instance i by thread t. cache_ is thread_local
\* static: one cache for the thread, whichever instance is called. The pop of
\* global_pool_'s free list is taken at the step of its successful compare_exchange
HyAllocate(i, t) ==
    /\ hy_call.made < MaxHyCalls
    /\ IF Len(hy_cache[t]) > 0
       THEN \* return cache_.blocks[--cache_.count]
            LET ptr == hy_cache[t][Len(hy_cache[t])]
            IN  /\ hy_cache' = [hy_cache EXCEPT ![t] = SubSeq(@, 1, Len(@) - 1)]
                /\ hy_held' = [hy_held EXCEPT ![t] = @ \cup {[ptr |-> ptr, pool |-> i]}]
                /\ hy_call' = [op |-> "allocate", pool |-> i, t |-> t, ptr |-> ptr,
                               made |-> hy_call.made + 1]
                /\ UNCHANGED <<hy_free, hy_stats>>
       ELSE IF hy_free[i] = <<>>
       THEN \* return global_pool_.allocate(), which is nullptr
            /\ hy_call' = [op |-> "allocate", pool |-> i, t |-> t, ptr |-> NULL,
                           made |-> hy_call.made + 1]
            /\ UNCHANGED <<hy_free, hy_stats, hy_cache, hy_held>>
       ELSE \* return global_pool_.allocate()
            LET ptr == Head(hy_free[i])
            IN  /\ hy_free' = [hy_free EXCEPT ![i] = Tail(@)]
                /\ hy_stats' = [hy_stats EXCEPT ![i] = recordAllocation(@, HyBlockSize)]
                /\ hy_held' = [hy_held EXCEPT ![t] = @ \cup {[ptr |-> ptr, pool |-> i]}]
                /\ hy_call' = [op |-> "allocate", pool |-> i, t |-> t, ptr |-> ptr,
                               made |-> hy_call.made + 1]
                /\ UNCHANGED hy_cache
    /\ UNCHANGED <<fbVars, saVars, tsVars, paVars, msVars, utilVars, fsVars>>

\* HybridThreadPool::deallocate(ptr) on instance i by thread t
HyDeallocate(i, t, ptr) ==
    /\ hy_call' = [op |-> "deallocate", pool |-> i, t |-> t, ptr |-> ptr,
                   made |-> hy_call.made]
    /\ IF ptr = NULL
       THEN UNCHANGED <<hy_free, hy_stats, hy_cache, hy_held>>
       ELSE IF Len(hy_cache[t]) < LOCAL_CACHE_SIZE
       THEN \* cache_.blocks[cache_.count++] = ptr
            /\ hy_cache' = [hy_cache EXCEPT ![t] = Append(@, ptr)]
            /\ hy_held' = [hy_held EXCEPT ![t] = @ \ {[ptr |-> ptr, pool |-> i]}]
            /\ UNCHANGED <<hy_free, hy_stats>>
       ELSE \* global_pool_.deallocate(ptr)
            /\ hy_free' = [hy_free EXCEPT ![i] = <<ptr>> \o @]
            /\ hy_stats' = [hy_stats EXCEPT ![i] = recordDeallocation(@, HyBlockSize)]
            /\ hy_held' = [hy_held EXCEPT ![t] = @ \ {[ptr |-> ptr, pool |-> i]}]
            /\ UNCHANGED hy_cache
    /\ UNCHANGED <<fbVars, saVars, tsVars, paVars, msVars, utilVars, fsVars>>

----------------------------------------------------------------------------
(* FixedSizePool *)

\* the most blocks of a pool and the most Allocate() calls that return a block
MaxFsBlocks == 3

MaxFsOps == 4

\* block sizes asked of the constructor: below a pointer, and no multiple of one
FsBlockSizes == {4, 12}

\* the address std::malloc returned for the arena
FsArenaBase == 512

\* no FixedSizePool is there
NoFixedSize ==
    /\ fs_memory_pool_ = NULL
    /\ fs_free_list_ = NULL
    /\ fs_block_size_ = 0
    /\ fs_block_count_ = 0
    /\ fs_used_count_ = 0
    /\ fs_stats_ = NewStats
    /\ fs_mem = <<>>
    /\ fs_outstanding = {}
    /\ fs_call = [built |-> "none", op |-> "none", arg |-> NULL, ret |-> NULL]

\* the loop of the constructor, for (i = 0; i < block_count_ - 1; ++i), from node i
\* on: node->next = current + block_size_; and last_node->next = nullptr after it
RECURSIVE FsLink(_, _, _, _)
FsLink(i, last, size, m) ==
    LET current == FsArenaBase + i * size
    IN  IF i < last
        THEN FsLink(i + 1, last, size, [m EXCEPT ![current] = current + size])
        ELSE [m EXCEPT ![current] = NULL]

\* FixedSizePool::FixedSizePool(block_size, block_count). With block_count == 0 the
\* arena is malloc(0): either it is null and std::bad_alloc is thrown, or the loop
\* bound block_count_ - 1 wraps to the largest size_t and the loop writes node after
\* node past the arena until the program faults
FsConstruct(block_size, block_count) ==
    LET bs         == Max(block_size, PointerSize)
        total_size == Wrap(bs * block_count)
        addrs      == {FsArenaBase + i * bs : i \in 0 .. block_count - 1}
    IN  /\ fs_block_size_ = bs
        /\ fs_block_count_ = block_count
        /\ fs_used_count_ = 0
        /\ fs_outstanding = {}
        /\ IF block_count = 0
           THEN \/ /\ fs_memory_pool_ = NULL
                   /\ fs_free_list_ = NULL
                   /\ fs_stats_ = NewStats
                   /\ fs_mem = <<>>
                   /\ fs_call = [built |-> "bad_alloc", op |-> "none", arg |-> NULL, ret |-> NULL]
                \/ /\ fs_memory_pool_ = FsArenaBase
                   /\ fs_free_list_ = FsArenaBase
                   /\ fs_stats_ = recordAllocation(NewStats, total_size)
                   /\ fs_mem = <<>>
                   /\ fs_call = [built |-> "fault", op |-> "none", arg |-> NULL, ret |-> NULL]
           ELSE /\ fs_memory_pool_ = FsArenaBase
                /\ fs_free_list_ = FsArenaBase
                /\ fs_stats_ = recordAllocation(NewStats, total_size)
                /\ fs_mem = FsLink(0, Wrap(block_count - 1), bs, [a \in addrs |-> NULL])
                /\ fs_call = [built |-> "ok", op |-> "none", arg |-> NULL, ret |-> NULL]

\* GetUsedCount, GetFreeCount
GetUsedCount == fs_used_count_

GetFreeCount == Wrap(fs_block_count_ - fs_used_count_)

\* FixedSizePool::allocate
FsAllocate ==
    /\ fs_call.built = "ok"
    /\ IF fs_free_list_ = NULL
       THEN /\ fs_call' = [fs_call EXCEPT !.op = "allocate", !.arg = NULL, !.ret = NULL]
            /\ UNCHANGED <<fs_free_list_, fs_used_count_, fs_stats_, fs_outstanding>>
       ELSE /\ fs_stats_.allocation_count <= MaxFsOps
            /\ LET node == fs_free_list_
               IN  /\ fs_free_list_' = fs_mem[node]
                   /\ fs_used_count_' = Wrap(fs_used_count_ + 1)
                   /\ fs_stats_' = recordAllocation(fs_stats_, fs_block_size_)
                   /\ fs_outstanding' = fs_outstanding \cup {node}
                   /\ fs_call' = [fs_call EXCEPT !.op = "allocate", !.arg = NULL, !.ret = node]
    /\ UNCHANGED <<fs_memory_pool_, fs_block_size_, fs_block_count_, fs_mem>>
    /\ UNCHANGED <<fbVars, saVars, tsVars, paVars, msVars, utilVars, hyVars>>

\* FixedSizePool::deallocate
FsDeallocate(ptr) ==
    /\ fs_call.built = "ok"
    /\ fs_call' = [fs_call EXCEPT !.op = "deallocate", !.arg = ptr, !.ret = NULL]
    /\ LET pool_start == fs_memory_pool_
           pool_end   == Wrap(pool_start + fs_block_size_ * fs_block_count_)
       IN  IF ptr = NULL \/ ptr < pool_start \/ ptr >= pool_end
           THEN UNCHANGED <<fs_free_list_, fs_used_count_, fs_stats_, fs_mem, fs_outstanding>>
           ELSE /\ fs_mem' = [fs_mem EXCEPT ![ptr] = fs_free_list_]
                /\ fs_free_list_' = ptr
                /\ fs_used_count_' = Wrap(fs_used_count_ - 1)
                /\ fs_stats_' = recordDeallocation(fs_stats_, fs_block_size_)
                /\ fs_outstanding' = fs_outstanding \ {ptr}
    /\ UNCHANGED <<fs_memory_pool_, fs_block_size_, fs_block_count_>>
    /\ UNCHANGED <<fbVars, saVars, tsVars, paVars, msVars, utilVars, hyVars>>

----------------------------------------------------------------------------
(* Specifications *)

Init ==
    /\ \E bs \in BlockSizeRequests, n \in 0 .. MaxBlocks : Construct(bs, n)
    /\ StackConstruct(MaxCapacity)
    /\ TsConstruct(PointerSize, 0, 1)
    /\ NoAllocator
    /\ MsConstruct
    /\ NoAlignCall
    /\ NoHybrid
    /\ NoFixedSize

\* the caller calls the pool itself, through no PoolAllocator
CallAllocate == Allocate /\ UNCHANGED paVars

DeallocateOutstanding == (\E ptr \in outstanding : Deallocate(ptr)) /\ UNCHANGED paVars

DeallocateNull == Deallocate(NULL) /\ UNCHANGED paVars

DeallocateForeign == (\E ptr \in ForeignPtrs : Deallocate(ptr)) /\ UNCHANGED paVars

UserWrites ==
    (\E ptr \in outstanding, v \in UserData : UserWrite(ptr, v)) /\ UNCHANGED paVars

Next ==
    \/ CallAllocate
    \/ DeallocateOutstanding
    \/ DeallocateNull
    \/ DeallocateForeign
    \/ UserWrites

\* one FixedBlockPool and its caller
Spec == Init /\ [][Next]_vars

\* the pointers the caller asks owns() about: null, the first byte of the arena, a
\* byte inside the first block, the last byte of the arena, and the bytes next to
\* the arena on either side
OwnsProbes ==
    LET end == memory_start_ + block_size_ * block_count_
    IN  {NULL, memory_start_, memory_start_ + 1, end - 1} \cup ForeignPtrs

\* pool.owns(ptr): a const member function, it reads three fields and writes none
CallOwns == (\E ptr \in OwnsProbes : owns(ptr) \in BOOLEAN) /\ UNCHANGED vars

OwnsNext ==
    \/ CallAllocate
    \/ DeallocateOutstanding
    \/ DeallocateNull
    \/ DeallocateForeign
    \/ UserWrites
    \/ CallOwns

\* one FixedBlockPool and a caller that also asks what the pool owns
SpecOwns == Init /\ [][OwnsNext]_vars

StackInit ==
    /\ \E capacity \in Capacities : StackConstruct(capacity)
    /\ Construct(PointerSize, 0)
    /\ TsConstruct(PointerSize, 0, 1)
    /\ NoAllocator
    /\ MsConstruct
    /\ NoAlignCall
    /\ NoHybrid
    /\ NoFixedSize

StackAllocates == \E size \in AllocSizes, alignment \in Alignments : StackAllocate(size, alignment)

FreeToMarkers == \E marker \in MarkerArgs : FreeToMarker(marker)

StackNext ==
    \/ StackAllocates
    \/ GetMarker
    \/ FreeToMarkers
    \/ Clear
    \/ PushMarker
    \/ PopMarker

\* one StackAllocator and its caller
SpecStack == StackInit /\ [][StackNext]_vars

\* sizes small enough for two blocks and the padding between them to fit
SmallSizes == {1, 5}

StackAllocatesSmall ==
    \E size \in SmallSizes, alignment \in Alignments : StackAllocate(size, alignment)

PaddingNext ==
    \/ StackAllocatesSmall
    \/ GetMarker
    \/ FreeToMarkers
    \/ Clear
    \/ PushMarker
    \/ PopMarker

\* one StackAllocator and a caller whose sizes never overflow new_offset
SpecPadding == StackInit /\ [][PaddingNext]_vars

\* block counts given to the constructor of a pool shared by threads: one block for
\* them all, or one for each of the most threads there may be
TsBlockCounts == {1, MaxThreads}

ThreadsInit ==
    /\ \E n \in 1 .. MaxThreads, block_count \in TsBlockCounts :
          TsConstruct(PointerSize, block_count, n)
    /\ Construct(PointerSize, 0)
    /\ StackConstruct(MaxCapacity)
    /\ NoAllocator
    /\ MsConstruct
    /\ NoAlignCall
    /\ NoHybrid
    /\ NoFixedSize

\* any of the threads takes its next step
AnyAllocLoad == \E t \in Threads : TsAllocLoad(t)

AnyAllocNext == \E t \in Threads : TsAllocNext(t)

AnyAllocCas == \E t \in Threads : TsAllocCas(t)

AnyAllocCasSpurious == \E t \in Threads : TsAllocCasSpurious(t)

AnyAllocStats == \E t \in Threads : TsAllocStats(t)

AnyUserWrite == \E t \in Threads, v \in UserData : TsUserWrite(t, v)

AnyDeallocLoad == \E t \in Threads : TsDeallocLoad(t)

AnyDeallocLink == \E t \in Threads : TsDeallocLink(t)

AnyDeallocCas == \E t \in Threads : TsDeallocCas(t)

AnyDeallocCasSpurious == \E t \in Threads : TsDeallocCasSpurious(t)

AnyDeallocStats == \E t \in Threads : TsDeallocStats(t)

ThreadsNext ==
    \/ AnyAllocLoad
    \/ AnyAllocNext
    \/ AnyAllocCas
    \/ AnyAllocCasSpurious
    \/ AnyAllocStats
    \/ AnyUserWrite
    \/ AnyDeallocLoad
    \/ AnyDeallocLink
    \/ AnyDeallocCas
    \/ AnyDeallocCasSpurious
    \/ AnyDeallocStats

\* one ThreadSafeFixedPool and the threads calling it
SpecThreads == ThreadsInit /\ [][ThreadsNext]_vars

\* a PoolAllocator<T> created with its own pool
AllocatorInit ==
    /\ \E size \in ValueSizes, block_count \in 0 .. MaxBlocks : PaConstruct(size, block_count)
    /\ MsConstruct
    /\ NoAlignCall
    /\ NoHybrid
    /\ NoFixedSize
    /\ StackConstruct(MaxCapacity)
    /\ TsConstruct(PointerSize, 0, 1)

Allocators == DOMAIN allocators

PaCopies == Len(allocators) < MaxAllocators /\ \E other \in Allocators : PaCopy(other)

PaRebinds ==
    /\ Len(allocators) < MaxAllocators
    /\ \E other \in Allocators :
          \E size \in RebindSizes \ {allocators[other].size} : PaRebind(other, size)

PaAllocates ==
    \E a \in Allocators : \E n \in Counts(allocators[a].size) : PaAllocate(a, n)

\* deallocate(p, n) of what an allocate(n) returned, through any allocator over the pool
PaDeallocates == \E a \in Allocators, r \in pa_live : PaDeallocate(a, r.ptr, r.n)

\* deallocate(nullptr, n), as after allocate(0)
PaDeallocateNull == \E a \in Allocators : PaDeallocate(a, NULL, 0)

AllocatorNext ==
    \/ PaCopies
    \/ PaRebinds
    \/ PaAllocates
    \/ PaDeallocates
    \/ PaDeallocateNull
    \/ UserWrites

\* the allocators over one FixedBlockPool and the containers using them
SpecAllocator == AllocatorInit /\ [][AllocatorNext]_vars

\* the most allocators made over one pool when they are made and destroyed
MaxLifetime == 3

Alive == {a \in Allocators : allocators[a].alive}

\* PoolAllocator<T> b(a) of an allocator that is there
LtCopies == Len(allocators) < MaxLifetime /\ \E other \in Alive : PaCopy(other)

\* PoolAllocator<U> b(a) of an allocator that is there
LtRebinds ==
    /\ Len(allocators) < MaxLifetime
    /\ \E other \in Alive :
          \E size \in RebindSizes \ {allocators[other].size} : PaRebind(other, size)

\* an allocator goes out of scope or is deleted, in any order
PaDestroys == \E a \in Alive : PaDestroy(a)

LifetimeNext ==
    \/ LtCopies
    \/ LtRebinds
    \/ PaDestroys

\* the allocators over one pool, made and destroyed in any order
SpecLifetime == AllocatorInit /\ [][LifetimeNext]_vars

\* HybridThreadPool instances of as many blocks each, and the threads calling them
HybridInit ==
    /\ \E n \in 1 .. MaxInstances, block_count \in 0 .. MaxHyBlocks, nthreads \in 1 .. MaxHyThreads :
          HyConstruct(n, block_count, nthreads)
    /\ Construct(PointerSize, 0)
    /\ StackConstruct(MaxCapacity)
    /\ TsConstruct(PointerSize, 0, 1)
    /\ NoAllocator
    /\ MsConstruct
    /\ NoAlignCall
    /\ NoFixedSize

HyAllocates == \E i \in HyInstances, t \in HyThreads : HyAllocate(i, t)

\* a thread gives a block back to the instance it has it from
HyDeallocates ==
    \E t \in HyThreads : \E r \in hy_held[t] : HyDeallocate(r.pool, t, r.ptr)

HyDeallocateNull ==
    /\ hy_call.op # "deallocate" \/ hy_call.ptr # NULL
    /\ \E i \in HyInstances, t \in HyThreads : HyDeallocate(i, t, NULL)

HybridNext ==
    \/ HyAllocates
    \/ HyDeallocates
    \/ HyDeallocateNull

\* the HybridThreadPool instances and the threads calling them, one call at a time
SpecHybrid == HybridInit /\ [][HybridNext]_vars

\* a FixedSizePool of any number of blocks, none included
FixedSizeInit ==
    /\ \E block_size \in FsBlockSizes, block_count \in 0 .. MaxFsBlocks :
          FsConstruct(block_size, block_count)
    /\ Construct(PointerSize, 0)
    /\ StackConstruct(MaxCapacity)
    /\ TsConstruct(PointerSize, 0, 1)
    /\ NoAllocator
    /\ MsConstruct
    /\ NoAlignCall
    /\ NoHybrid

\* Deallocate(p) of a block Allocate() returned and that is not given back
FsDeallocates == \E ptr \in fs_outstanding : FsDeallocate(ptr)

\* Deallocate(nullptr)
FsDeallocateNull == (fs_call.op # "deallocate" \/ fs_call.arg # NULL) /\ FsDeallocate(NULL)

FixedSizeNext ==
    \/ FsAllocate
    \/ FsDeallocates
    \/ FsDeallocateNull

\* one FixedSizePool and its caller
SpecFixedSize == FixedSizeInit /\ [][FixedSizeNext]_vars

\* a MemoryStats on its own
StatsInit ==
    /\ MsConstruct
    /\ NoAlignCall
    /\ NoHybrid
    /\ NoFixedSize
    /\ Construct(PointerSize, 0)
    /\ StackConstruct(MaxCapacity)
    /\ TsConstruct(PointerSize, 0, 1)
    /\ allocators = <<>> /\ heap = {} /\ pa_live = {} /\ pa_call = NoPaCall

MsRecordAllocations == \E size \in RecordSizes : MsRecordAllocation(size)

MsRecordDeallocations == \E size \in RecordSizes : MsRecordDeallocation(size)

StatsNext ==
    \/ MsRecordAllocations
    \/ MsRecordDeallocations
    \/ MsReset

\* one MemoryStats and its caller, one call at a time
SpecStats == StatsInit /\ [][StatsNext]_vars

\* the sizes rounded up: the small ones, and the last ones a size_t holds
AlignSizes == 0 .. 2 * MaxAlign + 1 \cup {WordMod - MaxAlign, WordMod - MaxAlign + 1, WordMod - 1}

\* the alignments asked for: the powers of two up to the maximum fundamental
\* alignment, and two that are no power of two
AlignUpAlignments == {1, 2, 3, 4, 6, 8, MaxAlign}

\* a caller about to round a size up, and a FixedBlockPool of one block built for
\* blocks of that size
AlignInit ==
    /\ \E size \in AlignSizes, alignment \in AlignUpAlignments :
          /\ align_call = [fn |-> "pending", size |-> size, alignment |-> alignment, ret |-> 0]
          /\ Construct(size, 1)
    /\ StackConstruct(MaxCapacity)
    /\ TsConstruct(PointerSize, 0, 1)
    /\ allocators = <<>> /\ heap = {} /\ pa_live = {} /\ pa_call = NoPaCall
    /\ MsConstruct
    /\ NoHybrid
    /\ NoFixedSize

\* alignUp(size, alignment)
CallAlignUp ==
    /\ align_call.fn = "pending"
    /\ align_call' = [align_call EXCEPT !.fn = "alignUp",
                                       !.ret = alignUp(align_call.size, align_call.alignment)]
    /\ UNCHANGED <<fbVars, saVars, tsVars, paVars, msVars, hyVars, fsVars>>

\* align_up(size, alignment)
CallAlign_up ==
    /\ align_call.fn = "pending"
    /\ align_call' = [align_call EXCEPT !.fn = "align_up",
                                       !.ret = align_up(align_call.size, align_call.alignment)]
    /\ UNCHANGED <<fbVars, saVars, tsVars, paVars, msVars, hyVars, fsVars>>

AlignNext ==
    \/ CallAlignUp
    \/ CallAlign_up

\* the rounding of sizes, by either name, and the block size of a pool
SpecAlign == AlignInit /\ [][AlignNext]_vars

\* a ThreadSafeFixedPool with fewer threads
FewThreadsInit ==
    /\ \E n \in 1 .. MaxThreads - 1, block_count \in TsBlockCounts :
          TsConstruct(PointerSize, block_count, n)
    /\ Construct(PointerSize, 0)
    /\ StackConstruct(MaxCapacity)
    /\ NoAllocator
    /\ MsConstruct
    /\ NoAlignCall
    /\ NoHybrid
    /\ NoFixedSize

AnyDeallocNull == \E t \in Threads : TsDeallocNull(t)

AnyDeallocForeign == \E t \in Threads : TsDeallocForeign(t)

AnyDeallocAgain == \E t \in Threads : TsDeallocAgain(t)

StrayNext ==
    \/ AnyAllocLoad
    \/ AnyAllocNext
    \/ AnyAllocCas
    \/ AnyAllocCasSpurious
    \/ AnyAllocStats
    \/ AnyUserWrite
    \/ AnyDeallocLoad
    \/ AnyDeallocLink
    \/ AnyDeallocCas
    \/ AnyDeallocCasSpurious
    \/ AnyDeallocStats
    \/ AnyDeallocNull
    \/ AnyDeallocForeign
    \/ AnyDeallocAgain

\* a pool and callers that also free what they do not hold
SpecStray == FewThreadsInit /\ [][StrayNext]_vars

\* the threads with a compare-exchange that fails only when free_list_ differs from
\* the expected value
ProgressNext ==
    \/ AnyAllocLoad
    \/ AnyAllocNext
    \/ AnyAllocCas
    \/ AnyAllocStats
    \/ AnyUserWrite
    \/ AnyDeallocLoad
    \/ AnyDeallocLink
    \/ AnyDeallocCas
    \/ AnyDeallocStats

\* the next step of thread t inside a call of allocate() or deallocate() it has begun
TsInside(t) ==
    /\ t \in Threads
    /\ \/ TsAllocNext(t)
       \/ TsAllocCas(t)
       \/ TsAllocStats(t)
       \/ TsDeallocLink(t)
       \/ TsDeallocCas(t)
       \/ TsDeallocStats(t)

\* a thread that is inside a call keeps being scheduled; nothing makes a caller
\* begin a call
SpecProgress ==
    /\ FewThreadsInit
    /\ [][ProgressNext]_vars
    /\ \A t \in 1 .. MaxThreads - 1 : WF_vars(TsInside(t))

----------------------------------------------------------------------------
(* FixedBlockPool: properties *)

SeqSet(s) == {s[i] : i \in 1 .. Len(s)}

LastCall == calls[Len(calls)]

\* a deallocate() call that the pool accepted
IsFree(c) == c.op = "deallocate" /\ c.arg # NULL /\ owns(c.arg)

IsAlloc(c) == c.op = "allocate"

\* C1: the blocks on the free list and the outstanding blocks are disjoint, hold no
\* block twice and are together the block_count_ blocks of the arena; the free list
\* is acyclic and block_count_ - |outstanding| long.
C1_Partition ==
    /\ SeqSet(FreeBlocks) \subseteq BlockAddrs
    /\ Cardinality(SeqSet(FreeBlocks)) = Len(FreeBlocks)
    /\ SeqSet(FreeBlocks) \cap outstanding = {}
    /\ SeqSet(FreeBlocks) \cup outstanding = BlockAddrs
    /\ Len(FreeBlocks) = block_count_ - Cardinality(outstanding)

\* blocks were handed out and given back in another order than they were taken
C1_Witness ==
    /\ stats_.deallocation_count >= 2
    /\ outstanding # {}
    /\ free_list_ \notin {NULL, memory_start_}

\* the allocate() calls on a fresh pool: the first block_count_ return distinct
\* non-null pointers, the next one returns null
FreshAllocations ==
    fresh.only_allocs =>
        /\ \A i \in 1 .. Len(fresh.rets) :
              (fresh.rets[i] = NULL) <=> (i > block_count_)
        /\ \A i, j \in 1 .. Len(fresh.rets) :
              (i < j /\ j <= block_count_) => fresh.rets[i] # fresh.rets[j]

\* allocate() returns null exactly when block_count_ blocks are outstanding
NullIffAllOutstanding ==
    Allocate =>
        ((LastCall'.ret = NULL) <=> (Cardinality(outstanding) = block_count_))

\* C3: on a fresh pool of N blocks the first N allocate() calls return pairwise
\* distinct non-null pointers and the (N+1)-th returns null; allocate() returns null
\* exactly when N blocks are outstanding.
C3_Capacity == []FreshAllocations /\ [][NullIffAllOutstanding]_vars

\* a fresh pool has been allocated from until it refused
C3_Witness ==
    /\ block_count_ = MaxBlocks
    /\ fresh.only_allocs
    /\ Len(fresh.rets) = block_count_ + 1
    /\ fresh.rets[block_count_ + 1] = NULL

\* C4: right after a valid deallocate(p) the next allocate() returns p; after
\* deallocate(p1), deallocate(p2) the next two allocate() calls return p2 then p1.
C4_LifoReuse ==
    /\ \A i \in 1 .. Len(calls) - 1 :
          (IsFree(calls[i]) /\ IsAlloc(calls[i + 1]))
              => calls[i + 1].ret = calls[i].arg
    /\ \A i \in 1 .. Len(calls) - 3 :
          (/\ IsFree(calls[i]) /\ IsFree(calls[i + 1])
           /\ IsAlloc(calls[i + 2]) /\ IsAlloc(calls[i + 3]))
              => /\ calls[i + 2].ret = calls[i + 1].arg
                 /\ calls[i + 3].ret = calls[i].arg

\* p1 then p2 were freed and the next two allocate() calls have returned
C4_Witness ==
    /\ Len(calls) = 4
    /\ IsFree(calls[1]) /\ IsFree(calls[2])
    /\ calls[1].arg # calls[2].arg
    /\ IsAlloc(calls[3]) /\ IsAlloc(calls[4])
    /\ calls[4].ret = calls[1].arg

\* allocate() on an empty free list returns null and changes nothing
ExhaustedAllocateIsNoOp ==
    (Allocate /\ free_list_ = NULL) =>
        /\ LastCall'.ret = NULL
        /\ UNCHANGED <<free_list_, mem, stats_>>

\* a refused allocate(), then a deallocate(p) of an outstanding block, then allocate()
RecoversAfterFree ==
    \A i \in 1 .. Len(calls) - 2 :
        (/\ IsAlloc(calls[i]) /\ calls[i].ret = NULL
         /\ IsFree(calls[i + 1])
         /\ IsAlloc(calls[i + 2]))
            => calls[i + 2].ret = calls[i + 1].arg

\* C5: allocate() on an empty free list returns null and leaves the free list and
\* the statistics unchanged; after a deallocate of an outstanding block the next
\* allocate() returns that block.
C5_Exhaustion == [][ExhaustedAllocateIsNoOp]_vars /\ []RecoversAfterFree

\* the pool refused, took a block back and handed it out again
C5_Witness ==
    /\ Len(calls) >= 3
    /\ LET n == Len(calls)
       IN  /\ IsAlloc(calls[n - 2]) /\ calls[n - 2].ret = NULL
           /\ IsFree(calls[n - 1])
           /\ IsAlloc(calls[n]) /\ calls[n].ret = calls[n - 1].arg
    /\ block_count_ = MaxBlocks

\* C6: deallocate(null) and deallocate(ptr) with ptr outside the arena change
\* neither the free-list head, nor the links, nor the statistics, so later
\* allocate() calls return the same blocks in the same order.
C6_RejectedFree ==
    [][(DeallocateNull \/ DeallocateForeign) =>
          /\ UNCHANGED <<free_list_, mem, stats_, outstanding>>
          /\ FreeBlocks' = FreeBlocks]_vars

\* a pointer outside the arena was given to a pool with free and outstanding blocks
C6_Witness ==
    /\ calls # <<>>
    /\ LastCall.op = "deallocate"
    /\ LastCall.arg \in ForeignPtrs
    /\ outstanding # {}
    /\ free_list_ # NULL

----------------------------------------------------------------------------
(* StackAllocator: properties *)

\* C7: allocate(size, alignment) with used() + padding + size > capacity (the sum
\* taken in the integers) returns null and leaves used(), the statistics and the
\* marker stack unchanged.
C7_NoFitFails ==
    [][\A size \in AllocSizes, alignment \in Alignments :
          (/\ StackAllocate(size, alignment)
           /\ offset_ + Padding(offset_, alignment) + size > capacity_)
              => /\ stack_call'.ret = NULL
                 /\ UNCHANGED <<offset_, stack_stats_, markers_>>]_vars

\* C8: m = getMarker(), then allocate() calls only, then freeToMarker(m): used() is
\* again what it was when m was taken, and allocate() returns from there what it
\* would have returned then.
C8_MarkerRoundTrip ==
    (stack_call.op = "freeToMarker" /\ stack_call.round_trip) =>
        /\ used = stack_call.marker
        /\ \A size \in AllocSizes, alignment \in Alignments :
              allocate(StackState, size, alignment).ret
                  = allocate([StackState EXCEPT !.offset = stack_call.marker],
                             size, alignment).ret

\* C9: freeToMarker(m) with m.offset > used() changes neither used(), nor the
\* statistics, nor the marker stack.
C9_ForwardRestoreRejected ==
    [][\A marker \in MarkerArgs :
          (FreeToMarker(marker) /\ marker > used)
              => UNCHANGED <<offset_, stack_stats_, markers_>>]_vars

\* a marker ahead of used() was given to an allocator in use
C9_Witness ==
    /\ stack_call.op = "freeToMarker"
    /\ stack_call.marker > used
    /\ used > 0
    /\ markers_ # <<>>

\* C10 as claimed: clear() and freeToMarker(Marker{0}) lead to the same state.
C10_ClearIsFreeToZero ==
    clear(StackState) = freeToMarker(StackState, 0)

\* C10, amended: clear() and freeToMarker(Marker{0}) both lead to used() = 0,
\* available() = capacity, the same marker stack and the same statistics, but for
\* deallocation_count when used() = 0: clear() leaves it, freeToMarker counts one.
C10_ClearVersusFreeToZero ==
    LET c == clear(StackState)
        f == freeToMarker(StackState, 0)
    IN  /\ c.offset = 0 /\ f.offset = 0
        /\ Wrap(capacity_ - c.offset) = capacity_
        /\ c.markers = f.markers
        /\ [c.stats EXCEPT !.deallocation_count = 0]
             = [f.stats EXCEPT !.deallocation_count = 0]
        /\ f.stats.deallocation_count = Wrap(stack_stats_.deallocation_count + 1)
        /\ c.stats.deallocation_count =
              IF used > 0 THEN f.stats.deallocation_count
              ELSE stack_stats_.deallocation_count

\* clear() released something while markers were pushed
C10_Witness ==
    /\ stack_call.op = "clear"
    /\ stack_call.size > 0
    /\ used = 0 /\ available = capacity_
    /\ markers_ # <<>>
    /\ stack_stats_.deallocation_count >= 2

----------------------------------------------------------------------------
(* ThreadSafeFixedPool: properties *)

\* every thread is between calls and has given back the block it got
AllFinished == \A t \in Threads : pc[t] = "idle" /\ holds[t] = NULL

\* C2: with every thread allocating and then deallocating the block it got, and a
\* pool of at least as many blocks as threads, no block is ever held by two
\* threads, and once all threads have finished the free list holds every block of
\* the arena exactly once.
C2_ThreadSafe ==
    ts_block_count_ >= threads =>
        /\ \A t, u \in Threads : (t # u /\ holds[t] # NULL) => holds[t] # holds[u]
        /\ AllFinished =>
              /\ SeqSet(TsFreeBlocks) = TsBlockAddrs
              /\ Len(TsFreeBlocks) = ts_block_count_

----------------------------------------------------------------------------
(* StackAllocatorScope: properties *)

\* C11: when a scope is destroyed, used() is again what it was when the scope was
\* constructed, and the scopes end innermost first; stated for the scopes in which
\* nothing but allocate() and nested scopes happened.
C11_ScopeRestores ==
    [][(PopMarker /\ scopes # <<>> /\ scopes[Len(scopes)].only_allocs)
          => /\ used' = scopes[Len(scopes)].entry
             /\ scopes' = SubSeq(scopes, 1, Len(scopes) - 1)]_vars

----------------------------------------------------------------------------
(* StackAllocator: placement, bounds and monotonicity *)

\* the regions [p, p + size) and [q, q + n) share no byte
Apart(p, size, q, n) == p + size <= q \/ q + n <= p

\* C12: a successful allocate(size, alignment) returns the lowest multiple of
\* alignment at or above buffer + used(), advances used() by padding + size with
\* 0 <= padding < alignment, and the region returned lies inside the buffer and
\* overlaps no region handed out since the last rollback.
C12_Placement ==
    [][\A size \in AllocSizes, alignment \in Alignments :
          (StackAllocate(size, alignment) /\ stack_call'.ret # NULL) =>
              LET p       == stack_call'.ret
                  padding == p - (buffer_ + used)
              IN  /\ p % alignment = 0
                  /\ 0 <= padding /\ padding < alignment
                  /\ used' = used + padding + size
                  /\ buffer_ <= p /\ p + size <= buffer_ + capacity_
                  /\ \A r \in regions : Apart(p, size, r.p, r.size)]_vars

\* C13: in every state 0 <= used() <= capacity, and available() is capacity - used()
\* with no underflow.
C13_Bounds ==
    /\ 0 <= used /\ used <= capacity_
    /\ available = capacity_ - used

\* an allocate() whose sum wrapped has succeeded inside a scope
C13_Witness ==
    /\ stack_call.op = "allocate"
    /\ stack_call.ret # NULL
    /\ stack_call.size > capacity_
    /\ markers_ # <<>>

\* C14: allocate() never decreases used(), whatever size and alignment it is given,
\* and used() decreases only through freeToMarker, pop_marker or clear.
C14_Monotone ==
    [][/\ StackAllocates => used' >= used
       /\ used' < used => (FreeToMarkers \/ PopMarker \/ Clear)]_vars

----------------------------------------------------------------------------
(* ThreadSafeFixedPool: allocate() and deallocate() one by one *)

\* C15: allocate() returns null only at a step at which it has just read null from
\* the head, by the first load or by a failed compare-exchange; a failed
\* compare-exchange that read a block tries again; a return of null leaves the
\* statistics alone, and a return after a successful compare-exchange is not null.
C15_NoSpuriousNull ==
    [][\A t \in Threads :
          /\ ((TsAllocLoad(t) \/ TsAllocCas(t) \/ TsAllocCasSpurious(t))
                  /\ pc'[t] = "idle")
                => (ts_free_list_ = NULL /\ holds'[t] = NULL /\ UNCHANGED ts_stats_)
          /\ (TsAllocCas(t) /\ ts_free_list_ \notin {old_head[t], NULL})
                => pc'[t] = "a_next"
          /\ TsAllocCasSpurious(t) => pc'[t] = "a_next"
          /\ TsAllocStats(t) => holds'[t] # NULL]_vars

\* two threads share one block: one of them got it, the other one's allocate() has
\* returned null, and no call is under way
C15_Witness ==
    /\ threads > ts_block_count_
    /\ \A t \in Threads : pc[t] = "idle"
    /\ \E t \in Threads : holds[t] \in TsBlockAddrs
    /\ ts_free_list_ = NULL
    /\ started > ts_stats_.allocation_count

\* C16: deallocate(null) changes nothing, and a deallocate(ptr) with ptr outside the
\* arena changes neither the free list nor the statistics at any of its steps.
C16_StrayFreeRejected ==
    [][\A t \in Threads :
          /\ TsDeallocNull(t) => UNCHANGED <<ts_free_list_, ts_mem, ts_stats_>>
          /\ (/\ ts_block[t] \in TsForeignPtrs
              /\ pc[t] \in {"d_link", "d_cas", "d_stats"}
              /\ pc'[t] # pc[t])
                => UNCHANGED <<ts_free_list_, ts_stats_>>]_vars

\* where a thread is while in the CAS loop of allocate() or of deallocate()
LoopSteps == {"a_next", "a_cas", "d_link", "d_cas"}

\* this step is a compare-exchange of thread u that took effect
CasSucceeds(u) ==
    \/ TsAllocCas(u) /\ pc'[u] = "a_stats"
    \/ TsDeallocCas(u) /\ pc'[u] = "d_stats"

\* a thread tries again only when free_list_ no longer is what it last read, and what
\* takes free_list_ away from what it last read is a compare-exchange of another
\* thread that took effect
C17_RetryCause ==
    [][\A t \in Threads :
          /\ ((TsAllocCas(t) \/ TsDeallocCas(t)) /\ pc'[t] \in {"a_next", "d_link"})
                => ts_free_list_ # old_head[t]
          /\ (/\ pc[t] \in LoopSteps /\ pc'[t] \in LoopSteps
              /\ ts_free_list_ = old_head[t] /\ ts_free_list_' # old_head[t])
                => \E u \in Threads \ {t} : CasSucceeds(u)]_vars

\* every call that is under way returns
C17_Terminates ==
    \A t \in 1 .. MaxThreads - 1 :
        (t \in Threads /\ pc[t] # "idle") ~> (t \in Threads /\ pc[t] = "idle")

\* C17: with a compare-exchange that fails only when free_list_ differs from the
\* expected value, every retry of the CAS loop of allocate() or deallocate() comes
\* from a compare-exchange of another thread that took effect, and every call that is
\* under way returns once the threads begin only finitely many calls.
C17_LockFree == C17_RetryCause /\ C17_Terminates

----------------------------------------------------------------------------
(* Double free: deallocate(p) once more, of a block just given back *)

\* the FixedBlockPool is the pool in use: no thread calls a ThreadSafeFixedPool
Sequential == threads = 0

\* either a FixedBlockPool with its caller, or a ThreadSafeFixedPool with its threads
DoubleFreeInit ==
    /\ \/ /\ \E bs \in BlockSizeRequests, n \in 1 .. MaxBlocks : Construct(bs, n)
          /\ TsConstruct(PointerSize, 0, 0)
       \/ /\ Construct(PointerSize, 0)
          /\ \E n \in 1 .. MaxThreads - 1, block_count \in TsBlockCounts :
                TsConstruct(PointerSize, block_count, n)
    /\ StackConstruct(MaxCapacity)
    /\ NoAllocator
    /\ MsConstruct
    /\ NoAlignCall
    /\ NoHybrid
    /\ NoFixedSize

SeqAllocate == Sequential /\ CallAllocate

SeqDeallocate == Sequential /\ DeallocateOutstanding

SeqUserWrites == Sequential /\ UserWrites

\* FixedBlockPool::deallocate(p) right after a deallocate(p) the pool accepted
DeallocateAgain ==
    /\ Sequential
    /\ calls # <<>> /\ IsFree(LastCall)
    /\ stats_.deallocation_count < MaxOps
    /\ Deallocate(LastCall.arg)
    /\ UNCHANGED paVars

DoubleFreeNext ==
    \/ SeqAllocate
    \/ SeqDeallocate
    \/ SeqUserWrites
    \/ DeallocateAgain
    \/ AnyAllocLoad
    \/ AnyAllocNext
    \/ AnyAllocCas
    \/ AnyAllocCasSpurious
    \/ AnyAllocStats
    \/ AnyUserWrite
    \/ AnyDeallocLoad
    \/ AnyDeallocLink
    \/ AnyDeallocCas
    \/ AnyDeallocCasSpurious
    \/ AnyDeallocStats
    \/ AnyDeallocAgain

SpecDoubleFree == DoubleFreeInit /\ [][DoubleFreeNext]_vars

\* the call i places before the last one of the log
Back(i) == calls[Len(calls) - i]

\* the calls i and i + 1 places before the last one are deallocate(p) and
\* deallocate(p) of a block p of the pool
FreedTwice(i) ==
    /\ Len(calls) >= i + 2
    /\ IsFree(Back(i)) /\ IsFree(Back(i + 1))
    /\ Back(i).arg = Back(i + 1).arg

\* FixedBlockPool: the second deallocate(p) is recorded and pushes p, after the two
\* calls p is the head of the free list and p->next == p, and the next two allocate()
\* calls both return p
C18_Sequential ==
    /\ [][DeallocateAgain =>
            /\ free_list_' = LastCall.arg
            /\ stats_'.deallocation_count = stats_.deallocation_count + 1]_vars
    /\ [](FreedTwice(0) => (free_list_ = LastCall.arg /\ mem[LastCall.arg] = LastCall.arg))
    /\ []((FreedTwice(1) /\ IsAlloc(LastCall)) => LastCall.ret = Back(1).arg)
    /\ []((FreedTwice(2) /\ IsAlloc(LastCall) /\ IsAlloc(Back(1)))
            => /\ LastCall.ret = Back(2).arg
               /\ Back(1).ret = Back(2).arg
               /\ LastCall.ret \in outstanding)

\* ThreadSafeFixedPool: the second deallocate(p) goes on to push p like any other; a
\* push of p onto a list whose head is p makes p->next == p and keeps p the head; an
\* allocate() that pops p from there leaves p the head, so the next one returns p too
C18_Threads ==
    [][\A t \in Threads :
          /\ TsDeallocAgain(t) => (pc'[t] = "d_link" /\ ts_block'[t] = ts_block[t])
          /\ (TsDeallocLink(t) /\ old_head[t] = ts_block[t] /\ ts_block[t] \in TsBlockAddrs)
                => ts_mem'[ts_block[t]] = ts_block[t]
          /\ (TsDeallocCas(t) /\ ts_free_list_ = old_head[t])
                => (ts_free_list_' = ts_block[t] /\ pc'[t] = "d_stats")
          /\ TsDeallocStats(t)
                => ts_stats_'.deallocation_count = ts_stats_.deallocation_count + 1
          /\ (TsAllocCas(t) /\ ts_free_list_ = old_head[t] /\ new_head[t] = old_head[t])
                => (ts_free_list_' = old_head[t] /\ pc'[t] = "a_stats")
          /\ TsAllocStats(t) => holds'[t] = old_head[t]]_vars

\* a single thread after its double free: the block is the head of the free list
\* whenever the thread is between calls, and is the block every allocate() returns
C18_OneThread ==
    [](( /\ threads = 1 /\ strays = 1 /\ pc[1] = "idle"
         /\ ts_stats_.deallocation_count + (IF holds[1] # NULL THEN 1 ELSE 0)
               > ts_stats_.allocation_count)
        => /\ ts_free_list_ = ts_block[1]
           /\ holds[1] \in {NULL, ts_block[1]})

\* C18: neither pool detects a double free. deallocate(p) of a block p just given back
\* is accepted, p is pushed onto the free list once more (in the sequential pool
\* p->next == p after it), and two successive allocate() calls then return p.
C18_DoubleFreeUndetected == C18_Sequential /\ C18_Threads /\ C18_OneThread

\* FixedBlockPool: deallocate(p), deallocate(p), allocate() == p, allocate() == p,
\* and p is still the head of the free list
C18_Witness ==
    /\ Sequential
    /\ FreedTwice(2) /\ IsAlloc(LastCall) /\ IsAlloc(Back(1))
    /\ LastCall.ret = Back(2).arg /\ Back(1).ret = Back(2).arg
    /\ free_list_ = LastCall.ret
    /\ stats_.deallocation_count = 2

\* ThreadSafeFixedPool: after a double free two threads hold the same block, which
\* is still the head of the free list
C18_WitnessThreads ==
    /\ threads = 2 /\ strays = 1
    /\ pc[1] = "idle" /\ pc[2] = "idle"
    /\ holds[1] \in TsBlockAddrs /\ holds[2] = holds[1]
    /\ ts_free_list_ = holds[1] /\ ts_mem[holds[1]] = holds[1]

----------------------------------------------------------------------------
(* PoolAllocator: properties *)

FromPool == {r \in pa_live : owns(r.ptr)}

FromGlobal == {r \in pa_live : r.ptr \in HeapAddrs}

\* C20: with every deallocate(p, n) given what an allocate(n) returned, through any
\* allocator over the pool: a pointer that came from the pool goes back to the pool, a
\* pointer that came from the global allocator goes to ::operator delete, and the
\* outstanding blocks of the pool are the live allocate(1) results.
C20_Symmetry ==
    /\ [][\A a \in Allocators : \A r \in pa_live :
            PaDeallocate(a, r.ptr, r.n) =>
              /\ pa_call'.outcome = "ok"
              /\ pa_live' = pa_live \ {r}
              /\ r \in FromPool =>
                    /\ pa_call'.route = "pool"
                    /\ outstanding' = outstanding \ {r.ptr}
                    /\ free_list_' = r.ptr
                    /\ stats_'.deallocation_count = stats_.deallocation_count + 1
                    /\ UNCHANGED heap
              /\ r \in FromGlobal =>
                    /\ pa_call'.route = "global"
                    /\ heap' = heap \ {r.ptr} /\ r.ptr \in heap
                    /\ UNCHANGED <<free_list_, mem, stats_, outstanding, calls>>]_vars
    /\ [](/\ pa_live = FromPool \cup FromGlobal
          /\ FromPool = {r \in pa_live : r.n = 1}
          /\ outstanding = {r.ptr : r \in FromPool}
          /\ Cardinality(outstanding) = Cardinality({r \in pa_live : r.n = 1})
          /\ heap = {r.ptr : r \in FromGlobal}
          /\ pa_call.outcome # "fault")

\* a block of the pool taken through one allocator has just gone back to the pool
\* through another, while an allocation of the global allocator is live
C20_Witness ==
    /\ pa_call.op = "deallocate" /\ pa_call.route = "pool" /\ pa_call.a = 2
    /\ owns(pa_call.ptr) /\ free_list_ = pa_call.ptr
    /\ FromGlobal # {}
    /\ Len(allocators) = 2 /\ allocators[1].size # allocators[2].size

\* C21: the block allocate(1) returns has room for a T: the block size of the pool
\* is at least the sizeof(T) of the allocator the call went through.
C21_BlockFits ==
    (pa_call.op = "allocate" /\ pa_call.n = 1 /\ pa_call.outcome = "ok")
        => block_size_ >= allocators[pa_call.a].size

----------------------------------------------------------------------------
(* FixedBlockPool: statistics *)

\* C22: allocation_count - deallocation_count is the number of outstanding blocks and
\* current_usage is that number times block_size_; an allocate() that fails, a
\* deallocate(nullptr) and a deallocate() of a pointer the pool does not own change
\* no counter.
C22_StatsTrackOutstanding ==
    /\ [](/\ stats_.allocation_count - stats_.deallocation_count = Cardinality(outstanding)
          /\ stats_.current_usage = Cardinality(outstanding) * block_size_)
    /\ [][/\ (CallAllocate /\ free_list_ = NULL) => UNCHANGED stats_
          /\ DeallocateNull => UNCHANGED stats_
          /\ DeallocateForeign => UNCHANGED stats_]_vars

\* one block is outstanding, another has been given back, and the last call was a
\* deallocate() the pool turned away
C22_Witness ==
    /\ Cardinality(outstanding) = 1
    /\ stats_.deallocation_count = 1 /\ stats_.allocation_count = 2
    /\ calls # <<>> /\ LastCall.op = "deallocate" /\ LastCall.arg # NULL
    /\ ~owns(LastCall.arg)

----------------------------------------------------------------------------
(* MemoryStats: properties *)

\* C23: in sequential use peak_usage is the largest value current_usage has taken
\* since construction or reset(), recordDeallocation never lowers it, the two counts
\* are the numbers of the calls made, and total_allocated - total_freed is
\* current_usage.
C23_StatsSequential ==
    /\ [](/\ ms_stats.peak_usage = ms_high
          /\ ms_stats.allocation_count = ms_calls.allocs
          /\ ms_stats.deallocation_count = ms_calls.deallocs
          /\ Wrap(ms_stats.total_allocated - ms_stats.total_freed) = ms_stats.current_usage)
    /\ [][MsRecordDeallocations => ms_stats'.peak_usage >= ms_stats.peak_usage]_vars

----------------------------------------------------------------------------
(* FixedBlockPool: owns *)

\* p lies in the arena, the bounds taken in the integers
InArena(p) == memory_start_ <= p /\ p < memory_start_ + block_size_ * block_count_

\* C24: owns(p) is true exactly when memory_start_ <= p < memory_start_ +
\* block_size_ * block_count_: true of every block, free or outstanding, and of every
\* pointer allocate() returned, false of null and of the addresses next to the arena;
\* and a call of owns() changes nothing.
C24_OwnsIsRangeCheck ==
    /\ [](/\ \A p \in OwnsProbes \cup BlockAddrs \cup outstanding : owns(p) <=> InArena(p)
          /\ \A b \in BlockAddrs : owns(b)
          /\ \A i \in DOMAIN calls : (IsAlloc(calls[i]) /\ calls[i].ret # NULL) => owns(calls[i].ret)
          /\ ~owns(NULL)
          /\ \A p \in ForeignPtrs : ~owns(p))
    /\ [][CallOwns => UNCHANGED <<fbVars, saVars, tsVars, paVars, msVars, utilVars, hyVars, fsVars>>]_vars

\* a pool of the most blocks with a block handed out and a block free, right after
\* an allocate()
C24_Witness ==
    /\ block_count_ = MaxBlocks
    /\ outstanding # {} /\ free_list_ # NULL
    /\ calls # <<>> /\ IsAlloc(LastCall) /\ LastCall.ret \in outstanding
    /\ owns(free_list_) /\ owns(LastCall.ret)

----------------------------------------------------------------------------
(* alignUp *)

\* size + alignment - 1 is still a size_t
NoOverflow(size, alignment) == size + alignment - 1 < WordMod

\* C25: for a power-of-two alignment and size + alignment - 1 within a size_t,
\* align_up returns the smallest multiple of the alignment that is >= size, and size
\* itself when size is a multiple; the block size of a FixedBlockPool is a multiple of
\* the maximum fundamental alignment and at least the larger of the size asked for
\* and the width of a pointer.
C25_AlignUp ==
    /\ (/\ align_call.fn \in {"alignUp", "align_up"}
        /\ isPowerOfTwo(align_call.alignment)
        /\ NoOverflow(align_call.size, align_call.alignment))
           => /\ align_call.ret % align_call.alignment = 0
              /\ align_call.ret >= align_call.size
              /\ align_call.ret - align_call.size < align_call.alignment
              /\ (align_call.size % align_call.alignment = 0 => align_call.ret = align_call.size)
    /\ (/\ align_call.fn # "none"
        /\ NoOverflow(Max(align_call.size, PointerSize), MaxAlign))
           => /\ block_size_ % MaxAlign = 0
              /\ block_size_ >= Max(align_call.size, PointerSize)
              /\ block_size_ - Max(align_call.size, PointerSize) < MaxAlign

\* align_up(9, 8) has returned 16, and the pool asked for blocks of 9 bytes has
\* blocks of 16
C25_Witness ==
    /\ align_call = [fn |-> "align_up", size |-> 9, alignment |-> 8, ret |-> 16]
    /\ block_size_ = MaxAlign

----------------------------------------------------------------------------
(* PoolAllocator: an exhausted pool *)

\* the FixedBlockPool behind the allocators: its fields and the blocks it handed out
PoolState == <<memory_start_, free_list_, block_size_, block_count_, stats_, mem, outstanding>>

AllocateOne == PaAllocates /\ pa_call'.n = 1

\* C26: allocate(1) on a pool with no free block throws std::bad_alloc: it returns
\* no pointer, takes nothing from the global allocator and leaves the pool as it was;
\* a deallocate(p, 1) of a pool block leaves a free block, and allocate(1) on a pool
\* with a free block, as right after such a deallocate, returns that block.
C26_Exhausted ==
    /\ [][(AllocateOne /\ free_list_ = NULL)
            => /\ pa_call'.outcome = "bad_alloc"
               /\ pa_call'.ptr = NULL
               /\ pa_call'.route = "pool"
               /\ UNCHANGED <<PoolState, heap, pa_live>>]_vars
    /\ [][(PaDeallocates /\ pa_call'.route = "pool")
            => /\ pa_call'.n = 1
               /\ free_list_' = pa_call'.ptr
               /\ free_list_' # NULL]_vars
    /\ [][(AllocateOne /\ pa_call.op = "deallocate" /\ pa_call.route = "pool")
            => /\ pa_call'.outcome = "ok"
               /\ pa_call'.route = "pool"
               /\ pa_call'.ptr = free_list_
               /\ owns(pa_call'.ptr)
               /\ pa_call'.ptr \in outstanding']_vars
    /\ [](pa_call.outcome = "bad_alloc" => pa_call.ptr = NULL)

\* allocate(1) has thrown std::bad_alloc on a pool of two blocks, both handed out,
\* one of them for the second time after a deallocate
C26_Witness ==
    /\ pa_call.op = "allocate" /\ pa_call.n = 1
    /\ pa_call.outcome = "bad_alloc" /\ pa_call.route = "pool"
    /\ block_count_ = MaxBlocks /\ Cardinality(outstanding) = MaxBlocks
    /\ stats_.allocation_count = MaxBlocks + 1 /\ stats_.deallocation_count = 1
    /\ heap = {}

----------------------------------------------------------------------------
(* ThreadSafeFixedPool: the statistics *)

\* every call has returned
Quiescent == \A t \in Threads : pc[t] = "idle"

\* the blocks the callers hold
HeldBlocks == {holds[t] : t \in Threads} \ {NULL}

\* deallocation_count <= allocation_count and current_usage is block_size_ times
\* their difference, at every instant
C27_Counts ==
    /\ ts_stats_.deallocation_count <= ts_stats_.allocation_count
    /\ ts_stats_.current_usage
         = ts_block_size_ * (ts_stats_.allocation_count - ts_stats_.deallocation_count)

\* C27: with every deallocate() given a block a completed allocate() returned, and
\* given it once, at every instant deallocation_count <= allocation_count and
\* current_usage == block_size_ * (allocation_count - deallocation_count); and when
\* every call has returned, allocation_count - deallocation_count is the number of
\* blocks the callers hold.
C27_ThreadStats ==
    /\ C27_Counts
    /\ Quiescent => ts_stats_.allocation_count - ts_stats_.deallocation_count
                       = Cardinality(HeldBlocks)

----------------------------------------------------------------------------
(* StackAllocator: the stack of markers *)

\* every marker on markers_ is within the part in use, and none is below the one
\* pushed before it
MarkersInOrder ==
    /\ \A i \in DOMAIN markers_ : markers_[i] <= used
    /\ \A i \in DOMAIN markers_ : \A j \in DOMAIN markers_ : i <= j => markers_[i] <= markers_[j]

\* C28: after any sequence of allocate, clear, freeToMarker, pushMarker, pop_marker
\* and scopes, every marker on markers_ has offset <= used() and the offsets do not
\* decrease from the bottom to the top, so a pop_marker() with a marker to pop sets
\* offset_ to that marker.
C28_MarkerStack ==
    /\ []MarkersInOrder
    /\ [][(PopMarker /\ markers_ # <<>>) => offset_' = markers_[Len(markers_)]]_vars

----------------------------------------------------------------------------
(* StackAllocator: freed against allocated *)

\* C29: after any sequence of allocate (with any power-of-two alignment),
\* freeToMarker, pop_marker and clear, stats().total_freed <= stats().total_allocated,
\* and current_usage is their difference: it has not wrapped below zero.
C29_FreedWithinAllocated ==
    /\ stack_stats_.total_freed <= stack_stats_.total_allocated
    /\ stack_stats_.current_usage = stack_stats_.total_allocated - stack_stats_.total_freed

----------------------------------------------------------------------------
(* PoolAllocator: the lifetime of the pool *)

\* C30: for any order of construction, copy, rebind and destruction of allocators,
\* the pool is deleted at most once, by the allocator that created it and by no copy,
\* and no allocator that is alive holds a pointer to a pool that has been deleted.
C30_PoolLifetime ==
    /\ Cardinality(Deleters) <= 1
    /\ Deleters \subseteq {1}
    /\ PoolDeleted => Alive = {}

----------------------------------------------------------------------------
(* HybridThreadPool: whose block *)

\* the blocks the callers hold
HyHeld == UNION {hy_held[t] : t \in HyThreads}

\* C31: allocate() on an instance returns only blocks of that instance's own
\* global_pool_ that no caller holds; a block given back to one instance is never
\* handed out by another.
C31_OwnBlocks ==
    /\ [](\A r \in HyHeld : r.ptr \in HyBlocksOf(r.pool, MaxHyBlocks))
    /\ [][(HyAllocates /\ hy_call'.ptr # NULL)
            => /\ hy_call'.ptr \in HyBlocksOf(hy_call'.pool, MaxHyBlocks)
               /\ \A r \in HyHeld : r.ptr # hy_call'.ptr]_vars

----------------------------------------------------------------------------
(* FixedSizePool: the counts *)

\* the free list from node p on, no further than fuel nodes
RECURSIVE FsChain(_, _)
FsChain(p, fuel) ==
    IF p = NULL \/ fuel = 0 THEN <<>>
    ELSE IF p \notin DOMAIN fs_mem THEN <<p>>
    ELSE <<p>> \o FsChain(fs_mem[p], fuel - 1)

FsFreeList == FsChain(fs_free_list_, MaxFsBlocks + 1)

FsInArena(p) ==
    fs_memory_pool_ <= p /\ p < fs_memory_pool_ + fs_block_size_ * fs_block_count_

\* the counts agree with the blocks: what holds of a pool that was built
FsCounts ==
    /\ Len(FsFreeList) = fs_block_count_ - Cardinality(fs_outstanding)
    /\ \A k \in DOMAIN FsFreeList : FsInArena(FsFreeList[k])
    /\ GetUsedCount = Cardinality(fs_outstanding)
    /\ GetFreeCount = Len(FsFreeList)
    /\ GetUsedCount + GetFreeCount = fs_block_count_
    /\ (fs_call.op = "allocate" /\ fs_call.ret = NULL)
          => Cardinality(fs_outstanding) = fs_block_count_
    /\ fs_free_list_ = NULL => Cardinality(fs_outstanding) = fs_block_count_

\* C32: for every block_count N >= 0 the constructor builds a free list of exactly N
\* blocks, all inside the arena of N * block_size bytes; after any Allocate and
\* Deallocate of outstanding blocks GetUsedCount() is the number of outstanding
\* blocks, GetFreeCount() the length of the free list, their sum N, and Allocate()
\* returns null only with N blocks outstanding.
C32_Bookkeeping ==
    /\ fs_call.built = "ok"
    /\ FsCounts

\* the same of the pools that have a block
C32_SomeBlocks == fs_block_count_ >= 1 => C32_Bookkeeping

====
